---- MODULE Spec2Model ----
(***************************************************************************)
(* A model of the Dali Center integration (custom_components/dali_center). *)
(*                                                                         *)
(* Spec          the config entry's lifecycle (async_setup_entry, the      *)
(*               five platform setups, async_unload_entry) together with   *)
(*               the options flow and the reload task it schedules.        *)
(* SpecDispatch  the four vendor callbacks async_setup_entry installs and  *)
(*               the dispatcher sends they schedule.                       *)
(* SpecFlow      the config flow (DaliCenterConfigFlow).                   *)
(* SpecPanel, SpecLight, SpecMotion, SpecIlluminance                       *)
(*               the entities of a loaded entry with one device: the       *)
(*               panel event entity and the device triggers, the light,    *)
(*               the motion sensor, the illuminance sensor with its        *)
(*               Sensor Enable switch; the vendor callbacks, the delivery  *)
(*               of their signals to the entities' handlers and the        *)
(*               service calls.                                            *)
(* SpecSetup     async_setup_entry and the platform setups on entries      *)
(*               that list a device, group or scene more than once, and    *)
(*               async_get_triggers for the registered devices.            *)
(* SpecHelpers   the selection helpers (find_set_differences, discovery,   *)
(*               schema, filter, differences), one call per behaviour.     *)
(* SpecEntities  the entities of a loaded entry with several devices and   *)
(*               the delivery of the gateway's events to them.             *)
(* SpecBoth      the mixin and options flow methods of config_flow.py      *)
(*               beside the functions of config_flow_helpers, both called  *)
(*               on the same arguments.                                    *)
(* SpecLightGroup  a loaded entry's light group entities and their         *)
(*               turn_on / turn_off services.                              *)
(* SpecTriggers  the device triggers fired for a panel's status reports,   *)
(*               for each of the vendor's button event tables.             *)
(* SpecPanelSensor, SpecPanelSensorFair                                    *)
(*               the panel's event sensor with its reset-to-idle tasks;    *)
(*               the second with weak fairness of the event loop's steps.  *)
(*                                                                         *)
(* The lifecycle specifications keep the entities by unique_id (entReg);   *)
(* the entity objects themselves (entities) exist in the specifications    *)
(* of the loaded entry.                                                    *)
(*                                                                         *)
(* The vendor client (PySrDaliGateway) and Home Assistant are not part of  *)
(* the repository: every call into them is an input whose outcome the      *)
(* action draws from the outcomes the call can have.                       *)
(***************************************************************************)
EXTENDS Integers, Sequences, FiniteSets, TLC

VARIABLES
    \* ---- the config entry and Home Assistant's shared state
    entryState,     \* the entry's state as Home Assistant keeps it
    entryData,      \* entry.data
    runtimeData,    \* entry.runtime_data.gateway ("unset" before the first setup)
    hassData,       \* hass.data[DOMAIN]: "absent", "empty" or the instance stored for the entry
    devReg,         \* device registry: identifiers of the entry's devices
    entReg,         \* entity registry: the entry's entities
    \* ---- the running lifecycle call (async_setup_entry / async_unload_entry)
    pc,             \* the await the call is suspended at, "idle" when none runs
    caller,         \* who started the call: "ha" or "reload"
    ret,            \* how the last call ended
    gen,            \* number of DaliGateway objects constructed so far
    gateway,        \* the call's local variable gateway
    version,        \* the call's local variable version ("unbound" until assigned)
    connected,      \* the gateway instances that are connected
    callbacks,      \* per instance, the callback attributes that are set
    platformGw,     \* per platform, what its setup obtained as gateway
    log,            \* the effects of the running (or last) lifecycle call, in order
    inputs,         \* how the awaited calls of the running (or last) lifecycle call ended
    \* ---- dispatcher
    jobs,           \* hass.add_job queue of dispatcher sends
    lastCall,       \* the last vendor callback invocation
    \* ---- options flow
    ofStep,         \* step whose form is shown; "none", "done", "abort", "raised"
    ofReason,       \* abort reason or form error
    ofRefresh,      \* _refresh_devices, _refresh_groups, _refresh_scenes
    ofDiscovered,   \* _discovered_entities
    ofSchema,       \* the data_schema of the form shown
    ofInput,        \* the user_input of the last submitted entity selection
    ofResults,      \* _refresh_results
    ofLog,          \* the effects of the flow's handlers and of its reload task, in order
    reloadPc,       \* the reload task's position
    \* ---- config flows
    cf,             \* per flow, the DaliCenterConfigFlow object and its current step
    entries,        \* the data of the config entries the flows created, in order
    \* ---- entities and device triggers
    entities,       \* per entity class, the entity objects by their device's unique_id
    attached,       \* the device triggers attached through async_attach_trigger
    effects         \* the last handler or service call and what it did outside the entity

lifecycleVars == <<entryState, entryData, runtimeData, hassData, devReg, entReg,
                   pc, caller, ret, gen, gateway, version, connected, callbacks,
                   platformGw, log, inputs>>
dispatchVars == <<jobs, lastCall>>
optionsVars == <<ofStep, ofReason, ofRefresh, ofDiscovered, ofSchema, ofInput, ofResults, ofLog,
                 reloadPc>>
flowVars == <<cf, entries>>
entityVars == <<entities, attached, effects>>
vars == <<lifecycleVars, dispatchVars, optionsVars, flowVars, entityVars>>

----------------------------------------------------------------------------
(* Bounds *)

MaxSetups == 2      \* DaliGateway objects constructed in one behaviour
MaxJobs == 2        \* dispatcher sends waiting in the job queue
MaxListed == 3
MaxPending == 2     \* reset tasks and scheduled creations a new status report may find      \* devices an entry lists, repetitions included

----------------------------------------------------------------------------
(* Data *)

\* The dicts keyed by entity type (entry.data, _discovered_entities, the forms'
\* user_input, the selection) are records with a field keys, the set of the
\* type keys the dict has; the field of a key the dict does not have is empty.
EntityTypes == {"devices", "groups", "scenes"}
Has(d, key) == key \in d.keys

PLATFORMS == <<"light", "sensor", "button", "event", "switch">>
PlatformSet == {PLATFORMS[i] : i \in 1..Len(PLATFORMS)}

CallbackNames == {"on_online_status", "on_device_status",
                  "on_energy_report", "on_sensor_on_off"}

GwSn == "GW1"

Range(s) == {s[i] : i \in 1..Len(s)}

----------------------------------------------------------------------------
(* What the gateway can report.  Every entity dict carries a unique_id;    *)
(* the flows compare entities by it.                                       *)

DeviceCatalogue ==
    { [unique_id |-> "GW1_d1", id |-> "d1", dev_type |-> "0101", name |-> "Lamp"],
      [unique_id |-> "GW1_d2", id |-> "d2", dev_type |-> "0302", name |-> "Panel"] }
GroupCatalogue ==
    { [unique_id |-> "GW1_g1", id |-> "g1", dev_type |-> "group", name |-> "Hall"] }
SceneCatalogue ==
    { [unique_id |-> "GW1_s1", id |-> "s1", dev_type |-> "scene", name |-> "Evening"] }

\* the lists without repetition over a catalogue
ListsOver(S) ==
    UNION { { s \in [1..n -> S] : \A i, j \in 1..n : s[i] = s[j] => i = j }
            : n \in 0..Cardinality(S) }

DeviceLists == ListsOver(DeviceCatalogue)
GroupLists == ListsOver(GroupCatalogue)
SceneLists == ListsOver(SceneCatalogue)

GatewayCatalogue ==
    { [gw_sn |-> "GW1", name |-> "Gateway 1", is_tls |-> FALSE],
      [gw_sn |-> "GW2", name |-> "Gateway 2", is_tls |-> TRUE] }
GatewayLists == ListsOver(GatewayCatalogue)
GatewayDict == CHOOSE g \in GatewayCatalogue : g.gw_sn = GwSn

\* dict.get(key, [])
GetList(d, key) == IF Has(d, key) THEN d[key] ELSE <<>>

Ids(list) == {list[i].unique_id : i \in 1..Len(list)}

----------------------------------------------------------------------------
(* Vendor helpers (PySrDaliGateway.helper), by device type code *)

is_light_device(dev_type) == dev_type \in {"0101", "0102", "0103", "0104", "0105"}
is_motion_sensor(dev_type) == dev_type = "0201"
is_illuminance_sensor(dev_type) == dev_type = "0202"
is_panel_device(dev_type) == dev_type \in {"0300", "0302", "0304", "0306", "0308"}

\* button.get_panel_button_count
button_get_panel_button_count(dev_type) ==
    CASE dev_type = "0302" -> 2
      [] dev_type = "0304" -> 4
      [] dev_type = "0306" -> 6
      [] dev_type = "0308" -> 8
      [] OTHER -> 0

\* what an operation does outside the entities: nothing yet
NoEffects == [op |-> [name |-> "none"], triggered |-> <<>>, bus |-> <<>>,
              writes |-> <<>>, calls |-> <<>>, sends |-> <<>>, errors |-> <<>>,
              fired |-> {}]

\* device_trigger.get_panel_button_count
device_trigger_get_panel_button_count(dev_type) ==
    CASE dev_type = "0302" -> 2
      [] dev_type = "0304" -> 4
      [] dev_type = "0306" -> 6
      [] dev_type = "0308" -> 8
      [] OTHER -> 4

\* the elements of a list at the indices I, in list order
RECURSIVE At(_, _, _)
At(list, I, i) ==
    IF i > Len(list) THEN <<>>
    ELSE (IF i \in I THEN <<list[i]>> ELSE <<>>) \o At(list, I, i + 1)

\* the loop "for x in list: if keep: append": the kept elements
AllKept(list, keep) == At(list, {i \in 1..Len(list) : keep[i]}, 1)

\* the loop "for x in list: if key in added: continue; if keep: append,
\* added.add(key)": the kept elements whose key no kept element before them
\* has; keys and keep give the key and the test's result of each element
FirstByKey(list, keys, keep) ==
    At(list, {i \in 1..Len(list) :
                 /\ keep[i]
                 /\ \A j \in 1..(i - 1) : keep[j] => keys[j] # keys[i]}, 1)

RECURSIVE Flatten(_)
Flatten(lists) ==
    IF lists = <<>> THEN <<>> ELSE Head(lists) \o Flatten(Tail(lists))

\* async_add_entities(new) under "if new:"
AddIfAny(new) == IF new = <<>> THEN <<>> ELSE <<new>>

Entity(cls, unique_id, dev_id) == [cls |-> cls, unique_id |-> unique_id, dev_id |-> dev_id]

\* dev_id of a vendor Device, scene_id of a Scene, group_id of a Group made
\* from an entity dict
DevId(d) == d.id

\* light.async_setup_entry (light.py, lines 29-69): the entity lists handed
\* to async_add_entities, call by call
light_async_setup_entry(data) ==
    LET devices == GetList(data, "devices")
        groups == GetList(data, "groups")
        lights == FirstByKey(devices,
                             [i \in DOMAIN devices |-> DevId(devices[i])],
                             [i \in DOMAIN devices |-> is_light_device(devices[i].dev_type)])
        added == FirstByKey(groups,
                            [i \in DOMAIN groups |-> groups[i].unique_id],
                            [i \in DOMAIN groups |-> TRUE])
    IN AddIfAny([i \in DOMAIN lights |->
                    Entity("DaliCenterLight", lights[i].unique_id, DevId(lights[i]))])
       \o AddIfAny([i \in DOMAIN added |->
                    Entity("DaliCenterLightGroup", DevId(added[i]), DevId(added[i]))])

SensorClassSwapped(dev_type) ==
    IF is_light_device(dev_type) THEN "DaliCenterEnergySensor"
    ELSE IF is_motion_sensor(dev_type) THEN "DaliCenterIlluminanceSensor"
    ELSE IF is_illuminance_sensor(dev_type) THEN "DaliCenterMotionSensor"
    ELSE IF is_panel_device(dev_type) THEN "DaliCenterPanelSensor"
    ELSE ""

\* the class the if / elif chain of sensor.async_setup_entry picks
\* (sensor.py, lines 52-63); "" when no test matches
SensorClass(dev_type) ==
    IF is_light_device(dev_type) THEN "DaliCenterEnergySensor"
    ELSE IF is_motion_sensor(dev_type) THEN "DaliCenterMotionSensor"
    ELSE IF is_illuminance_sensor(dev_type) THEN "DaliCenterIlluminanceSensor"
    ELSE IF is_panel_device(dev_type) THEN "DaliCenterPanelSensor"
    ELSE ""

\* the unique_id each sensor class gives itself (sensor.py, lines 82, 149,
\* 253, 355)
SensorUniqueId(cls, u) ==
    CASE cls = "DaliCenterEnergySensor" -> u \o "_energy"
      [] cls = "DaliCenterPanelSensor" -> u \o "_event"
      [] OTHER -> u

\* sensor.async_setup_entry (sensor.py, lines 28-66)
sensor_async_setup_entry(data) ==
    LET devices == GetList(data, "devices")
        added == FirstByKey(devices,
                            [i \in DOMAIN devices |-> DevId(devices[i])],
                            [i \in DOMAIN devices |-> SensorClass(devices[i].dev_type) # ""])
    IN AddIfAny([i \in DOMAIN added |->
                    Entity(SensorClass(added[i].dev_type),
                           SensorUniqueId(SensorClass(added[i].dev_type),
                                          added[i].unique_id),
                           DevId(added[i]))])

\* button.async_setup_entry (button.py, lines 29-79)
button_async_setup_entry(data) ==
    LET scenes == GetList(data, "scenes")
        devices == GetList(data, "devices")
        added_scenes == FirstByKey(scenes,
                                   [i \in DOMAIN scenes |-> DevId(scenes[i])],
                                   [i \in DOMAIN scenes |-> TRUE])
        buttons(d) ==
            IF is_panel_device(d.dev_type)
            THEN [button_id \in 1..button_get_panel_button_count(d.dev_type) |->
                     Entity("DaliCenterPanelButton",
                            d.unique_id \o "_btn_" \o ToString(button_id), DevId(d))]
            ELSE <<>>
        all_buttons == Flatten([i \in DOMAIN devices |-> buttons(devices[i])])
    IN AddIfAny([i \in DOMAIN added_scenes |->
                    Entity("DaliCenterSceneButton", added_scenes[i].unique_id,
                           DevId(added_scenes[i]))]
                \o FirstByKey(all_buttons,
                              [i \in DOMAIN all_buttons |-> all_buttons[i].unique_id],
                              [i \in DOMAIN all_buttons |-> TRUE]))

\* event.async_setup_entry (event.py, lines 82-102)
event_async_setup_entry(data) ==
    LET devices == GetList(data, "devices")
        panels == AllKept(devices,
                          [i \in DOMAIN devices |-> is_panel_device(devices[i].dev_type)])
    IN AddIfAny([i \in DOMAIN panels |->
                    Entity("DaliCenterPanelEvent",
                           panels[i].unique_id \o "_panel_events", DevId(panels[i]))])

\* switch.async_setup_entry (switch.py, lines 22-54)
switch_async_setup_entry(data) ==
    LET devices == GetList(data, "devices")
        added == FirstByKey(devices,
                            [i \in DOMAIN devices |-> DevId(devices[i])],
                            [i \in DOMAIN devices |->
                                is_illuminance_sensor(devices[i].dev_type)])
    IN AddIfAny([i \in DOMAIN added |->
                    Entity("DaliCenterIlluminanceSensorEnableSwitch",
                           added[i].unique_id \o "_sensor_enable", DevId(added[i]))])

\* a platform's async_setup_entry: its async_add_entities calls
PlatformSetup(p, data) ==
    CASE p = "light" -> light_async_setup_entry(data)
      [] p = "sensor" -> sensor_async_setup_entry(data)
      [] p = "button" -> button_async_setup_entry(data)
      [] p = "event" -> event_async_setup_entry(data)
      [] p = "switch" -> switch_async_setup_entry(data)

\* unique_ids of the entities a platform's async_setup_entry hands to
\* async_add_entities for the entry data
PlatformEntities(p, data) ==
    {e.unique_id : e \in Range(Flatten(PlatformSetup(p, data)))}

\* the device identifiers the entities' device_info names
PlatformDevices(p, data) ==
    LET devs == Range(GetList(data, "devices"))
        byType(test(_)) == {d.id : d \in {x \in devs : test(x.dev_type)}}
        any(t) == is_light_device(t) \/ is_motion_sensor(t)
                  \/ is_illuminance_sensor(t) \/ is_panel_device(t)
        panelWithButtons(t) == is_panel_device(t) /\ button_get_panel_button_count(t) > 0
    IN CASE p = "light" -> byType(is_light_device)
         [] p = "sensor" -> byType(any)
         [] p = "button" -> byType(panelWithButtons)
         [] p = "event" -> byType(is_panel_device)
         [] p = "switch" -> byType(is_illuminance_sensor)


----------------------------------------------------------------------------
(* The config entry's lifecycle: __init__.py *)

Instance(n) == "gw" \o ToString(n)
Instances == {Instance(n) : n \in 1..MaxSetups}
LegacyInstance == "gw0"     \* a gateway object that is not one async_setup_entry made

Notify(title) == "notify:" \o title

GatewayDevice == GwSn       \* identifiers={(DOMAIN, gw_sn)}

NoPlatform == [p \in PlatformSet |-> "pending"]
NoInputs == [call |-> "none", connect |-> "none", get_version |-> "none",
             disconnect |-> "none", unload_platforms |-> "none"]

\* hass.data[DOMAIN][entry.entry_id]
HassDataLookup == IF hassData \in {"absent", "empty"} THEN "KeyError" ELSE hassData

\* where each platform's async_setup_entry takes the gateway from
PlatformGateway(p) ==
    IF p \in {"light", "sensor"} THEN HassDataLookup ELSE runtimeData

\* mutation of InstallCallbacks: the callbacks are defined but never assigned
InstallCallbacksSkipped == callbacks' = callbacks

\* lines 88-115: the four callbacks are defined and assigned to the gateway
InstallCallbacks == callbacks' = [callbacks EXCEPT ![gateway] = CallbackNames]

\* lines 57-72, up to the await of gateway.connect()
async_setup_entry(who) ==
    /\ pc = "idle"
    /\ entryState \in {"not_loaded", "setup_retry"}
    /\ gen < MaxSetups
    /\ who = "reload" => (reloadPc = "setup" /\ entryState = "not_loaded")
    /\ caller' = who
    /\ gen' = gen + 1
    /\ gateway' = Instance(gen + 1)
    /\ version' = "unbound"
    /\ pc' = "connect"
    /\ ret' = "running"
    /\ entryState' = "setup_in_progress"
    /\ platformGw' = NoPlatform
    /\ log' = <<>>
    /\ inputs' = [NoInputs EXCEPT !.call = "async_setup_entry"]
    /\ ofLog' = IF who = "reload" THEN Append(ofLog, "reload_setup") ELSE ofLog
    /\ UNCHANGED <<entryData, runtimeData, hassData, devReg, entReg, connected, callbacks>>
    /\ UNCHANGED <<dispatchVars, flowVars, entityVars>>
    /\ UNCHANGED <<ofStep, ofReason, ofRefresh, ofDiscovered, ofSchema, ofInput, ofResults, reloadPc>>

\* mutation of Raised: the exception is swallowed and the call returns True
RaisedSwallowed(exc, state) ==
    /\ pc' = "idle"
    /\ ret' = "True"
    /\ entryState' = "loaded"
    /\ reloadPc' = IF caller = "reload" THEN "done" ELSE reloadPc
    /\ ofLog' = IF caller = "reload" THEN Append(ofLog, "reload_done") ELSE ofLog

\* how a call that raised ends for the entry and for the reload task awaiting it
Raised(exc, state) ==
    /\ pc' = "idle"
    /\ ret' = exc
    /\ entryState' = state
    /\ reloadPc' = IF caller = "reload" THEN "done" ELSE reloadPc
    /\ ofLog' = IF caller = "reload" THEN Append(ofLog, "reload_error") ELSE ofLog

\* lines 70-118: gateway.connect() under the timeout ends, then up to the
\* await of gateway.get_version()
async_setup_entry_connect(outcome) ==
    /\ pc = "connect"
    /\ inputs' = [inputs EXCEPT !.connect = outcome]
    /\ CASE outcome = "ok" ->
              /\ connected' = connected \cup {gateway}
              /\ log' = log \o <<"connected", "callbacks_installed">>
              /\ InstallCallbacks
              /\ pc' = "get_version"
              /\ UNCHANGED <<ret, entryState, reloadPc, ofLog>>
         [] outcome = "DaliGatewayError" ->
              /\ log' = Append(log, Notify("Connection Failed"))
              /\ Raised("ConfigEntryNotReady", "setup_retry")
              /\ UNCHANGED <<connected, callbacks>>
         [] outcome = "TimeoutError" ->
              /\ log' = log \o <<Notify("Connection Timeout"), "callbacks_installed">>
              /\ InstallCallbacks
              /\ pc' = "get_version"
              /\ UNCHANGED <<connected, ret, entryState, reloadPc, ofLog>>
    /\ UNCHANGED <<entryData, runtimeData, hassData, devReg, entReg, caller, gen,
                   gateway, version, platformGw>>
    /\ UNCHANGED <<dispatchVars, flowVars, entityVars>>
    /\ UNCHANGED <<ofStep, ofReason, ofRefresh, ofDiscovered, ofSchema, ofInput, ofResults>>

\* lines 117-148: gateway.get_version() ends, then up to the await of
\* async_forward_entry_setups
async_setup_entry_get_version(outcome) ==
    /\ pc = "get_version"
    /\ inputs' = [inputs EXCEPT !.get_version = outcome]
    /\ CASE outcome = "ok" ->
              /\ version' = "bound"
              /\ devReg' = devReg \cup {GatewayDevice}
              /\ runtimeData' = gateway
              /\ log' = log \o <<"device_registered", "runtime_data_set", "forward_entry_setups">>
              /\ pc' = "forward"
              /\ UNCHANGED <<ret, entryState, reloadPc, ofLog>>
         [] outcome = "DaliGatewayError" ->
              \* version stays unbound; line 130 reads it
              /\ log' = Append(log, Notify("Version Query Failed"))
              /\ Raised("UnboundLocalError", "setup_error")
              /\ UNCHANGED <<version, devReg, runtimeData>>
    /\ UNCHANGED <<entryData, hassData, entReg, caller, gen, gateway, connected,
                   callbacks, platformGw>>
    /\ UNCHANGED <<dispatchVars, flowVars, entityVars>>
    /\ UNCHANGED <<ofStep, ofReason, ofRefresh, ofDiscovered, ofSchema, ofInput, ofResults>>

\* the platforms are set up in the order of _PLATFORMS (line 21)
NextPlatform ==
    IF \E i \in 1..Len(PLATFORMS) : platformGw[PLATFORMS[i]] = "pending"
    THEN PLATFORMS[CHOOSE i \in 1..Len(PLATFORMS) :
            /\ platformGw[PLATFORMS[i]] = "pending"
            /\ \A j \in 1..(i - 1) : platformGw[PLATFORMS[j]] # "pending"]
    ELSE "none"

\* one forwarded platform's async_setup_entry; Home Assistant logs an exception
\* of a platform setup and goes on with the other platforms
platform_async_setup_entry(p) ==
    /\ pc = "forward"
    /\ p = NextPlatform
    /\ platformGw' = [platformGw EXCEPT ![p] = PlatformGateway(p)]
    /\ IF PlatformGateway(p) = "KeyError"
       THEN /\ UNCHANGED <<entReg, devReg>>
            /\ effects' = [NoEffects EXCEPT
                  !.op = [name |-> "async_setup_entry", platform |-> p,
                          raised |-> "KeyError"]]
       ELSE /\ entReg' = entReg \cup PlatformEntities(p, entryData)
            /\ devReg' = devReg \cup PlatformDevices(p, entryData)
            /\ effects' = [NoEffects EXCEPT
                  !.op = [name |-> "async_setup_entry", platform |-> p,
                          raised |-> "none"],
                  !.calls = PlatformSetup(p, entryData)]
    /\ UNCHANGED <<entryState, entryData, runtimeData, hassData, pc, caller, ret, gen,
                   gateway, version, connected, callbacks, log, inputs>>
    /\ UNCHANGED <<dispatchVars, optionsVars, flowVars, entities, attached>>

\* lines 148-151: async_forward_entry_setups returns, the call returns True
async_setup_entry_return ==
    /\ pc = "forward"
    /\ \A p \in PlatformSet : platformGw[p] # "pending"
    /\ pc' = "idle"
    /\ ret' = "True"
    /\ entryState' = "loaded"
    /\ log' = Append(log, "return_true")
    /\ reloadPc' = IF caller = "reload" THEN "done" ELSE reloadPc
    /\ ofLog' = IF caller = "reload" THEN Append(ofLog, "reload_done") ELSE ofLog
    /\ UNCHANGED <<entryData, runtimeData, hassData, devReg, entReg, caller, gen,
                   gateway, version, connected, callbacks, platformGw, inputs>>
    /\ UNCHANGED <<dispatchVars, flowVars, entityVars>>
    /\ UNCHANGED <<ofStep, ofReason, ofRefresh, ofDiscovered, ofSchema, ofInput, ofResults>>

\* lines 154-161, up to the await of gateway.disconnect()
async_unload_entry(who) ==
    /\ pc = "idle"
    /\ entryState = "loaded"
    /\ who = "reload" => reloadPc = "unload"
    /\ caller' = who
    /\ gateway' = runtimeData
    /\ pc' = "disconnect"
    /\ ret' = "running"
    /\ entryState' = "unload_in_progress"
    /\ log' = <<>>
    /\ inputs' = [NoInputs EXCEPT !.call = "async_unload_entry"]
    /\ ofLog' = IF who = "reload" THEN Append(ofLog, "reload_unload") ELSE ofLog
    /\ UNCHANGED <<entryData, runtimeData, hassData, devReg, entReg, gen, version,
                   connected, callbacks, platformGw>>
    /\ UNCHANGED <<dispatchVars, flowVars, entityVars>>
    /\ UNCHANGED <<ofStep, ofReason, ofRefresh, ofDiscovered, ofSchema, ofInput, ofResults, reloadPc>>

\* lines 160-172: gateway.disconnect() ends, then up to the await of
\* async_unload_platforms
async_unload_entry_disconnect(outcome) ==
    /\ pc = "disconnect"
    /\ inputs' = [inputs EXCEPT !.disconnect = outcome]
    /\ CASE outcome = "ok" ->
              /\ connected' = connected \ {gateway}
              /\ log' = log \o <<"disconnect", "unload_platforms">>
         [] outcome = "DaliGatewayError" ->
              /\ log' = log \o <<"disconnect", Notify("Disconnection Failed"),
                                 "unload_platforms">>
              /\ UNCHANGED connected
    /\ pc' = "unload_platforms"
    /\ UNCHANGED <<entryState, entryData, runtimeData, hassData, devReg, entReg,
                   caller, ret, gen, gateway, version, callbacks, platformGw>>
    /\ UNCHANGED <<dispatchVars, optionsVars, flowVars, entityVars>>

\* mutation of UnloadResult: the platform unload's result is dropped
UnloadResultDropped(result) == "True"

\* line 172: return await async_unload_platforms(...)
UnloadResult(result) == IF result THEN "True" ELSE "False"

\* line 172: async_unload_platforms ends and its result is returned
async_unload_entry_return(result) ==
    /\ pc = "unload_platforms"
    /\ inputs' = [inputs EXCEPT !.unload_platforms = IF result THEN "True" ELSE "False"]
    /\ pc' = "idle"
    /\ ret' = UnloadResult(result)
    /\ entryState' = IF result THEN "not_loaded" ELSE "failed_unload"
    /\ log' = Append(log, IF result THEN "return_true" ELSE "return_false")
    /\ reloadPc' = IF caller = "reload" THEN "sleep" ELSE reloadPc
    /\ UNCHANGED <<entryData, runtimeData, hassData, devReg, entReg, caller, gen,
                   gateway, version, connected, callbacks, platformGw>>
    /\ UNCHANGED <<dispatchVars, flowVars, entityVars>>
    /\ UNCHANGED <<ofStep, ofReason, ofRefresh, ofDiscovered, ofSchema, ofInput, ofResults, ofLog>>


----------------------------------------------------------------------------
(* Entity selection: config_flow.py (EntityDiscoveryMixin) and helper.py *)

\* [x for x in list if x["unique_id"] in ids]
RECURSIVE SelectIds(_, _)
SelectIds(list, ids) ==
    IF list = <<>> THEN <<>>
    ELSE (IF Head(list).unique_id \in ids THEN <<Head(list)>> ELSE <<>>)
         \o SelectIds(Tail(list), ids)

\* {obj[attr_name] for obj in list}
KeySet(list, attr_name) == {list[i][attr_name] : i \in 1..Len(list)}

\* [obj for obj in list if obj[attr_name] not in keys]
WithoutKeys(list, attr_name, keys) ==
    At(list, {i \in 1..Len(list) : list[i][attr_name] \notin keys}, 1)

\* mutation of find_set_differences: unique2 is filtered by list2's own keys
find_set_differences_own_keys(list1, list2, attr_name) ==
    LET set2_keys == KeySet(list2, attr_name)
    IN <<WithoutKeys(list1, attr_name, set2_keys), WithoutKeys(list2, attr_name, set2_keys)>>

\* helper.find_set_differences(list1, list2, attr_name)
find_set_differences(list1, list2, attr_name) ==
    LET set1_keys == KeySet(list1, attr_name)
        set2_keys == KeySet(list2, attr_name)
    IN <<WithoutKeys(list1, attr_name, set2_keys), WithoutKeys(list2, attr_name, set1_keys)>>

EmptyDict == [keys |-> {}, devices |-> <<>>, groups |-> <<>>, scenes |-> <<>>]

\* mutation of filter_selected_entities: only user_input decides the keys
filter_selected_entities_input_keys(user_input, discovered) ==
    LET pick(T) == IF Has(user_input, T)
                   THEN SelectIds(GetList(discovered, T), user_input[T]) ELSE <<>>
    IN [keys |-> user_input.keys, devices |-> pick("devices"),
        groups |-> pick("groups"), scenes |-> pick("scenes")]

\* EntityDiscoveryMixin._filter_selected_entities
filter_selected_entities(user_input, discovered) ==
    LET both == user_input.keys \cap discovered.keys
        pick(T) == IF T \in both THEN SelectIds(discovered[T], user_input[T]) ELSE <<>>
    IN [keys |-> both, devices |-> pick("devices"),
        groups |-> pick("groups"), scenes |-> pick("scenes")]

\* mutation of Overlay: the selection is not merged
OverlayDropped(current_data, selected) == current_data

\* {**current_data, **selected}
Overlay(current_data, selected) ==
    [current_data EXCEPT
        !.keys = @ \cup selected.keys,
        !.devices = IF Has(selected, "devices") THEN selected.devices ELSE @,
        !.groups = IF Has(selected, "groups") THEN selected.groups ELSE @,
        !.scenes = IF Has(selected, "scenes") THEN selected.scenes ELSE @]

NoSchema == [keys |-> {}, options |-> [T \in EntityTypes |-> {}],
             defaults |-> [T \in EntityTypes |-> {}]]

\* mutation of prepare_entity_selection_schema: a field for every type that
\* is a key of discovered
prepare_entity_selection_schema_by_key(discovered, has_existing, existing, show_diff) ==
    [keys |-> discovered.keys,
     options |-> [T \in EntityTypes |-> Ids(GetList(discovered, T))],
     defaults |-> [T \in EntityTypes |->
                     IF has_existing
                     THEN Ids(GetList(existing, T)) \cap Ids(GetList(discovered, T))
                     ELSE Ids(GetList(discovered, T))]]

\* EntityDiscoveryMixin._prepare_entity_selection_schema: the fields of the
\* schema, and per field the option keys and the default selection.
\* has_existing is FALSE for existing_selections=None.
prepare_entity_selection_schema(discovered, has_existing, existing, show_diff) ==
    LET existing_ids(T) == IF has_existing THEN Ids(GetList(existing, T)) ELSE {}
        removed(T) == IF show_diff /\ has_existing /\ Has(existing, T)
                      THEN Ids(existing[T]) \ Ids(GetList(discovered, T))
                      ELSE {}
        opts(T) == Ids(GetList(discovered, T)) \cup removed(T)
        field(T) == GetList(discovered, T) # <<>>
    IN [keys |-> {T \in EntityTypes : field(T)},
        options |-> [T \in EntityTypes |-> IF field(T) THEN opts(T) ELSE {}],
        defaults |-> [T \in EntityTypes |->
                        IF ~field(T) THEN {}
                        ELSE IF ~has_existing THEN opts(T)
                        ELSE existing_ids(T) \cap opts(T)]]

\* what Home Assistant hands to the step that a form with this schema was
\* shown for: every field of the schema, each a subset of the field's options
UserInputs(schema) ==
    { [keys |-> schema.keys, devices |-> d, groups |-> g, scenes |-> sc] :
        d \in SUBSET schema.options["devices"],
        g \in SUBSET schema.options["groups"],
        sc \in SUBSET schema.options["scenes"] }

NoResults == [keys |-> {},
              added |-> [T \in EntityTypes |-> <<>>],
              removed |-> [T \in EntityTypes |-> <<>>],
              count |-> [T \in EntityTypes |-> 0]]

\* mutation of calculate_entity_differences: the refresh flags are ignored
calculate_entity_differences_any(refresh, selected, current_data) ==
    LET on(T) == Has(selected, T)
        diff(T) == find_set_differences(selected[T], GetList(current_data, T), "unique_id")
    IN [keys |-> {T \in EntityTypes : on(T)},
        added |-> [T \in EntityTypes |-> IF on(T) THEN diff(T)[1] ELSE <<>>],
        removed |-> [T \in EntityTypes |-> IF on(T) THEN diff(T)[2] ELSE <<>>],
        count |-> [T \in EntityTypes |-> IF on(T) THEN Len(selected[T]) ELSE 0]]

\* OptionsFlowHandler._calculate_entity_differences: _refresh_results
calculate_entity_differences(refresh, selected, current_data) ==
    LET on(T) == refresh[T] /\ Has(selected, T)
        diff(T) == find_set_differences(selected[T], GetList(current_data, T), "unique_id")
    IN [keys |-> {T \in EntityTypes : on(T)},
        added |-> [T \in EntityTypes |-> IF on(T) THEN diff(T)[1] ELSE <<>>],
        removed |-> [T \in EntityTypes |-> IF on(T) THEN diff(T)[2] ELSE <<>>],
        count |-> [T \in EntityTypes |-> IF on(T) THEN Len(selected[T]) ELSE 0]]

\* the outcomes of gateway.discover_devices / _groups / _scenes: a list, or
\* "error" for any exception
DiscoverOutcomes(T) ==
    CASE T = "devices" -> DeviceLists
      [] T = "groups" -> GroupLists
      [] T = "scenes" -> SceneLists

\* mutation of discover_entities: one failing call empties every result
discover_entities_fail_all(flags, out, failed) ==
    LET res(T) == IF flags[T] /\ {U \in failed : flags[U]} = {} THEN out[T] ELSE <<>>
    IN [keys |-> {T \in EntityTypes : flags[T]},
        devices |-> res("devices"), groups |-> res("groups"), scenes |-> res("scenes")]

\* EntityDiscoveryMixin._discover_entities: a key per requested type, the
\* list the gateway returned or [] when the call raised.  out gives per type
\* the outcome of the gateway call, failed the types whose call raised.
discover_entities(flags, out, failed) ==
    LET res(T) == IF flags[T] /\ T \notin failed THEN out[T] ELSE <<>>
    IN [keys |-> {T \in EntityTypes : flags[T]},
        devices |-> res("devices"), groups |-> res("groups"), scenes |-> res("scenes")]

\* the gateway calls _discover_entities makes, in order: one per requested
\* type, each inside its own try
discover_entities_calls(flags) ==
    At(<<"discover_devices", "discover_groups", "discover_scenes">>,
       {i \in 1..3 : flags[<<"devices", "groups", "scenes">>[i]]}, 1)

\* ---- the texts of the options flow: config_flow.py, OptionsFlowHandler ----

\* str.title() of the words the formatters use
Title(word) ==
    CASE word = "devices" -> "Devices"
      [] word = "groups" -> "Groups"
      [] word = "scenes" -> "Scenes"
      [] word = "added" -> "Added"
      [] word = "removed" -> "Removed"

\* dict.get(key, default) of an entity dict, as text
GetOr(item, key, default) == IF key \in DOMAIN item THEN item[key] ELSE default

\* str.strip() of a text given by its lines, none of which starts or ends
\* with white space: the empty lines at both ends go
RECURSIVE Strip(_)
Strip(lines) ==
    IF lines = <<>> THEN <<>>
    ELSE IF Head(lines) = "" THEN Strip(Tail(lines))
    ELSE IF lines[Len(lines)] = "" THEN Strip(SubSeq(lines, 1, Len(lines) - 1))
    ELSE lines

\* the id_formatter of entity_configs for the entity type
IdStr(prefix, item) ==
    CASE prefix = "devices" -> "ID: " \o GetOr(item, "unique_id", "N/A")
      [] prefix = "groups" -> "Channel: " \o GetOr(item, "channel", "N/A")
                               \o ", Group: " \o GetOr(item, "id", "N/A")
      [] prefix = "scenes" -> "Channel: " \o GetOr(item, "channel", "N/A")
                               \o ", Scene: " \o GetOr(item, "id", "N/A")

\* OptionsFlowHandler._format_added_removed (config_flow.py, lines 493-518),
\* the lines of the text
format_added_removed(results, prefix) ==
    LET format_items(items, action) ==
            IF items = <<>> THEN <<"No " \o prefix \o " " \o action>>
            ELSE <<Title(action) \o " " \o Title(prefix) \o " ("
                   \o ToString(Len(items)) \o "):">>
                 \o [i \in 1..Len(items) |->
                        "  - " \o GetOr(items[i], "name", "Unnamed")
                        \o " (" \o IdStr(prefix, items[i]) \o ")"]
                 \o <<"">>
    IN format_items(results.added[prefix], "added")
       \o format_items(results.removed[prefix], "removed")

\* OptionsFlowHandler._format_refresh_results (config_flow.py, lines
\* 460-491) on the _refresh_results __init__ and
\* _calculate_entity_differences assign, so that hasattr holds
format_refresh_results(results) ==
    LET part(T) == IF T \in results.keys
                   THEN <<"Total " \o Title(T) \o ": " \o ToString(results.count[T])>>
                        \o format_added_removed(results, T) \o <<"">>
                   ELSE <<>>
        text == Strip(part("devices") \o part("groups") \o part("scenes"))
    IN IF text = <<>> THEN <<"No items refreshed">> ELSE text

\* OptionsFlowHandler._format_discovery_summary (config_flow.py, lines
\* 429-443) for the handler's refresh flags and _discovered_entities
format_discovery_summary(refresh, discovered) ==
    LET line(T) == IF refresh[T] /\ Has(discovered, T)
                   THEN <<"Discovered " \o Title(T) \o ": "
                          \o ToString(Len(discovered[T]))>>
                   ELSE <<>>
        summary == line("devices") \o line("groups") \o line("scenes")
    IN IF summary = <<>> THEN <<"No entities discovered">> ELSE summary

\* ---- config_flow_helpers: EntityDiscoveryHelper and UIFormattingHelper ----

\* what a gateway discover call can do: answer, raise DaliGatewayError, raise
\* another Exception
RaiseKinds == {"none", "DaliGatewayError", "Exception"}

\* mutation of EntityDiscoveryHelper_discover_entities: the except Exception
\* clause of discover_devices assigns nothing
EntityDiscoveryHelper_discover_entities_no_fallback(flags, out, raised) ==
    [keys |-> {T \in EntityTypes : flags[T]} \
                 (IF raised["devices"] = "Exception" THEN {"devices"} ELSE {}),
     devices |-> IF flags["devices"] /\ raised["devices"] = "none"
                 THEN out["devices"] ELSE <<>>,
     groups |-> IF flags["groups"] /\ raised["groups"] = "none"
                THEN out["groups"] ELSE <<>>,
     scenes |-> IF flags["scenes"] /\ raised["scenes"] = "none"
                THEN out["scenes"] ELSE <<>>]

\* EntityDiscoveryHelper.discover_entities (entity_helpers.py, lines 18-81):
\* the devices call has an except clause for DaliGatewayError and one for
\* Exception, the other two calls one for Exception
EntityDiscoveryHelper_discover_entities(flags, out, raised) ==
    LET devices == CASE raised["devices"] = "none" -> out["devices"]
                     [] raised["devices"] = "DaliGatewayError" -> <<>>
                     [] raised["devices"] = "Exception" -> <<>>
        groups == IF raised["groups"] = "none" THEN out["groups"] ELSE <<>>
        scenes == IF raised["scenes"] = "none" THEN out["scenes"] ELSE <<>>
    IN [keys |-> {T \in EntityTypes : flags[T]},
        devices |-> IF flags["devices"] THEN devices ELSE <<>>,
        groups |-> IF flags["groups"] THEN groups ELSE <<>>,
        scenes |-> IF flags["scenes"] THEN scenes ELSE <<>>]

\* EntityDiscoveryHelper.prepare_entity_selection_schema (entity_helpers.py,
\* lines 83-206), called with the lists of the discovered dict
EntityDiscoveryHelper_prepare_entity_selection_schema(devices, groups, scenes, has_existing, existing, show_diff) ==
    LET list(T) == CASE T = "devices" -> devices
                     [] T = "groups" -> groups
                     [] T = "scenes" -> scenes
        \* one "if <list>:" block: the option keys and the default selection
        field(T) ==
            LET existing_ids == IF has_existing THEN Ids(GetList(existing, T)) ELSE {}
                current_ids == Ids(list(T))
                removed == IF show_diff /\ has_existing /\ T \in existing.keys
                           THEN {u \in Ids(existing[T]) : u \notin current_ids} ELSE {}
                options == current_ids \cup removed
            IN [options |-> options,
                defaults |-> IF ~has_existing THEN options
                             ELSE {u \in existing_ids : u \in options}]
    IN [keys |-> {T \in EntityTypes : list(T) # <<>>},
        options |-> [T \in EntityTypes |->
                        IF list(T) # <<>> THEN field(T).options ELSE {}],
        defaults |-> [T \in EntityTypes |->
                        IF list(T) # <<>> THEN field(T).defaults ELSE {}]]

\* EntityDiscoveryHelper.filter_selected_entities (entity_helpers.py, lines
\* 208-240)
EntityDiscoveryHelper_filter_selected_entities(user_input, discovered_entities) ==
    LET in(T) == T \in user_input.keys /\ T \in discovered_entities.keys
        chosen(T) == SelectSeq(discovered_entities[T],
                               LAMBDA e : e.unique_id \in user_input[T])
    IN [keys |-> {T \in EntityTypes : in(T)},
        devices |-> IF in("devices") THEN chosen("devices") ELSE <<>>,
        groups |-> IF in("groups") THEN chosen("groups") ELSE <<>>,
        scenes |-> IF in("scenes") THEN chosen("scenes") ELSE <<>>]

\* UIFormattingHelper.calculate_entity_differences (ui_helpers.py, lines
\* 100-144): the refresh_results it returns
UIFormattingHelper_calculate_entity_differences(selected, current_data, refresh_devices, refresh_groups, refresh_scenes) ==
    LET flag(T) == CASE T = "devices" -> refresh_devices
                     [] T = "groups" -> refresh_groups
                     [] T = "scenes" -> refresh_scenes
        done(T) == flag(T) /\ T \in selected.keys
        current(T) == IF T \in current_data.keys THEN current_data[T] ELSE <<>>
        diff(T) == find_set_differences(selected[T], current(T), "unique_id")
    IN [keys |-> {T \in EntityTypes : done(T)},
        added |-> [T \in EntityTypes |-> IF done(T) THEN diff(T)[1] ELSE <<>>],
        removed |-> [T \in EntityTypes |-> IF done(T) THEN diff(T)[2] ELSE <<>>],
        count |-> [T \in EntityTypes |-> IF done(T) THEN Len(selected[T]) ELSE 0]]

\* UIFormattingHelper._format_added_removed (ui_helpers.py, lines 73-98)
UIFormattingHelper_format_added_removed(results, prefix) ==
    LET lines(items, action) ==
            IF Len(items) = 0 THEN <<"No " \o prefix \o " " \o action>>
            ELSE <<Title(action) \o " " \o Title(prefix) \o " ("
                   \o ToString(Len(items)) \o "):">>
                 \o [i \in 1..Len(items) |->
                        "  - " \o GetOr(items[i], "name", "Unnamed")
                        \o " (" \o IdStr(prefix, items[i]) \o ")"]
                 \o <<"">>
    IN lines(results.added[prefix], "added") \o lines(results.removed[prefix], "removed")

\* UIFormattingHelper.format_refresh_results (ui_helpers.py, lines 36-71)
UIFormattingHelper_format_refresh_results(refresh_results) ==
    IF refresh_results.keys = {} THEN <<"No items refreshed">>
    ELSE LET part(T) ==
                 IF T \in refresh_results.keys
                 THEN <<"Total " \o Title(T) \o ": "
                        \o ToString(refresh_results.count[T])>>
                      \o UIFormattingHelper_format_added_removed(refresh_results, T)
                      \o <<"">>
                 ELSE <<>>
             text == Strip(part("devices") \o part("groups") \o part("scenes"))
         IN IF text = <<>> THEN <<"No items refreshed">> ELSE text

\* UIFormattingHelper.format_discovery_summary (ui_helpers.py, lines 14-34)
UIFormattingHelper_format_discovery_summary(discovered_entities, refresh_devices, refresh_groups, refresh_scenes) ==
    LET flags == <<refresh_devices, refresh_groups, refresh_scenes>>
        types == <<"devices", "groups", "scenes">>
        kept == At(types, {i \in 1..3 : flags[i] /\ types[i] \in discovered_entities.keys}, 1)
        summary == [i \in 1..Len(kept) |->
                       "Discovered " \o Title(kept[i]) \o ": "
                       \o ToString(Len(discovered_entities[kept[i]]))]
    IN IF summary = <<>> THEN <<"No entities discovered">> ELSE summary

AllFlags == [T \in EntityTypes |-> TRUE]
NoFlags == [T \in EntityTypes |-> FALSE]

----------------------------------------------------------------------------
(* The options flow: config_flow.py, OptionsFlowHandler *)

\* async_step_init without user input: the form with the three refresh flags
options_async_step_init_show ==
    /\ ofStep \in {"none", "init"}
    /\ ofStep' = "init"
    /\ ofLog' = IF ofStep = "none" THEN <<"show_init">> ELSE ofLog
    /\ UNCHANGED <<ofReason, ofRefresh, ofDiscovered, ofSchema, ofInput, ofResults, reloadPc>>
    /\ UNCHANGED <<lifecycleVars, dispatchVars, flowVars, entityVars>>

\* async_step_select_entities without user input (lines 412-427)
ShowSelectEntities(discovered) ==
    /\ ofSchema' = prepare_entity_selection_schema(discovered, TRUE, entryData, TRUE)
    /\ ofStep' = "select_entities"
    /\ ofReason' = "none"

\* async_step_refresh (lines 289-329), entered from async_step_init
async_step_refresh(flags, out, failed) ==
    CASE hassData = "absent" ->
           \* hass.data[DOMAIN] raises KeyError, caught at line 322
           /\ ofStep' = "refresh"
           /\ ofReason' = "cannot_connect"
           /\ ofLog' = Append(ofLog, "show_refresh_error")
           /\ UNCHANGED <<ofDiscovered, ofSchema>>
      [] hassData = "empty" ->
           /\ ofStep' = "abort"
           /\ ofReason' = "gateway_not_found"
           /\ ofLog' = Append(ofLog, "abort")
           /\ UNCHANGED <<ofDiscovered, ofSchema>>
      [] OTHER ->
           /\ ofDiscovered' = discover_entities(flags, out, failed)
           /\ ShowSelectEntities(discover_entities(flags, out, failed))
           /\ ofLog' = ofLog \o <<"discover:" \o hassData, "show_select_entities">>

\* async_step_init with user input (lines 278-287)
options_async_step_init(flags, out, failed) ==
    /\ ofStep = "init"
    /\ ofRefresh' = flags
    /\ async_step_refresh(flags, out, failed)
    /\ UNCHANGED <<ofInput, ofResults, reloadPc>>
    /\ UNCHANGED <<lifecycleVars, dispatchVars, flowVars, entityVars>>

\* async_step_select_entities with user input (lines 335-410), through
\* async_step_refresh_result showing its form
options_async_step_select_entities(user_input) ==
    /\ ofStep = "select_entities"
    /\ LET current_data == entryData
           selected == filter_selected_entities(user_input, ofDiscovered)
       IN /\ ofResults' = calculate_entity_differences(ofRefresh, selected, current_data)
          /\ entryData' = Overlay(current_data, selected)
    /\ ofInput' = user_input
    /\ devReg' = {}
    /\ entReg' = {}
    /\ reloadPc' = "unload"
    /\ ofStep' = "refresh_result"
    /\ ofLog' = ofLog \o <<"update_entry", "remove_devices", "remove_entities",
                           "create_task", "show_refresh_result">>
    /\ UNCHANGED <<ofReason, ofRefresh, ofDiscovered, ofSchema>>
    /\ UNCHANGED <<entryState, runtimeData, hassData, pc, caller, ret, gen, gateway,
                   version, connected, callbacks, platformGw, log, inputs>>
    /\ UNCHANGED <<dispatchVars, flowVars, entityVars>>

\* async_step_refresh_result with user input (line 458)
options_async_step_refresh_result ==
    /\ ofStep = "refresh_result"
    /\ ofStep' = "done"
    /\ ofLog' = Append(ofLog, "create_entry")
    /\ UNCHANGED <<ofReason, ofRefresh, ofDiscovered, ofSchema, ofInput, ofResults, reloadPc>>
    /\ UNCHANGED <<lifecycleVars, dispatchVars, flowVars, entityVars>>

(* _reload_with_delay (lines 380-405), the task created at line 408.  The   *)
(* task awaits config_entries.async_unload and, after the sleep,            *)
(* config_entries.async_setup; those call async_unload_entry("reload") and  *)
(* async_setup_entry("reload") when the entry's state allows it.            *)

\* async_unload of an entry that is not loaded: nothing to unload
reload_unload_not_loaded ==
    /\ reloadPc = "unload"
    /\ pc = "idle"
    /\ entryState \in {"not_loaded", "setup_retry", "setup_error"}
    /\ entryState' = "not_loaded"
    /\ reloadPc' = "sleep"
    /\ ofLog' = Append(ofLog, "reload_unload")
    /\ UNCHANGED <<ofStep, ofReason, ofRefresh, ofDiscovered, ofSchema, ofInput, ofResults>>
    /\ UNCHANGED <<entryData, runtimeData, hassData, devReg, entReg, pc, caller, ret,
                   gen, gateway, version, connected, callbacks, platformGw, log, inputs>>
    /\ UNCHANGED <<dispatchVars, flowVars, entityVars>>

\* async_unload or async_setup refused by Home Assistant (OperationNotAllowed),
\* caught at line 402
reload_refused ==
    /\ ~(pc # "idle" /\ caller = "reload")
    /\ \/ /\ reloadPc = "unload"
          /\ entryState \in {"failed_unload", "setup_in_progress", "unload_in_progress"}
       \/ reloadPc = "setup" /\ entryState # "not_loaded"
    /\ reloadPc' = "done"
    /\ ofLog' = Append(ofLog, "reload_error")
    /\ UNCHANGED <<ofStep, ofReason, ofRefresh, ofDiscovered, ofSchema, ofInput, ofResults>>
    /\ UNCHANGED <<lifecycleVars, dispatchVars, flowVars, entityVars>>

\* what the coroutine returns once it ended, after the setup (line 399) or
\* in the except branch (line 402): it has no return statement (-> None)
reload_with_delay_return(ended) == "None"

\* asyncio.sleep(0.5) ends
reload_sleep ==
    /\ reloadPc = "sleep"
    /\ reloadPc' = "setup"
    /\ UNCHANGED <<ofStep, ofReason, ofRefresh, ofDiscovered, ofSchema, ofInput, ofResults, ofLog>>
    /\ UNCHANGED <<lifecycleVars, dispatchVars, flowVars, entityVars>>

----------------------------------------------------------------------------
(* Entities: event.py, device_trigger.py *)

\* Optional[...] values and dict.get results: None or a value
None == <<>>
Some(v) == <<v>>
Val(o) == o[1]

\* one property of a device status report: prop.get("dpid"),
\* prop.get("keyNo"), prop.get("value")
Prop(dpid, keyNo, value) == [dpid |-> dpid, keyNo |-> keyNo, value |-> value]

\* PySrDaliGateway.const.BUTTON_EVENTS.get(dpid); "" for no entry
BUTTON_EVENTS(dpid) ==
    IF dpid = None THEN ""
    ELSE CASE Val(dpid) = 1 -> "single_click"
           [] Val(dpid) = 2 -> "long_press"
           [] Val(dpid) = 3 -> "double_click"
           [] Val(dpid) = 4 -> "rotate"
           [] Val(dpid) = 5 -> "long_press_stop"
           [] OTHER -> ""

\* str() of an optional number inside an f-string
Str(o) == IF o = None THEN "None" ELSE ToString(Val(o))

\* mutation of EventName: the gesture before the key number
EventNameSwapped(key_no, event_type) == "button_" \o event_type \o "_" \o Str(key_no)

\* f"button_{key_no}_{event_type}" (event.py, line 176)
EventName(key_no, event_type) == "button_" \o Str(key_no) \o "_" \o event_type

\* Home Assistant's ids: the entity_id of a device's panel event entity and
\* the device registry id of the device
PanelEntityId(u) == "event." \o u \o "_panel_events"
RegistryId(u) == "device:" \o u

\* PANEL_CONFIGS.get(dev_type) (event.py, lines 32-63); button_count 0 for no
\* entry
PANEL_CONFIGS(dev_type) ==
    LET keys == <<"single_click", "long_press", "double_click", "long_press_stop">>
    IN CASE dev_type = "0302" -> [button_count |-> 2, events |-> keys]
         [] dev_type = "0304" -> [button_count |-> 4, events |-> keys]
         [] dev_type = "0306" -> [button_count |-> 6, events |-> keys]
         [] dev_type = "0308" -> [button_count |-> 8, events |-> keys]
         [] dev_type = "0300" ->
              [button_count |-> 1, events |-> <<"single_click", "double_click", "rotate">>]
         [] OTHER -> [button_count |-> 0, events |-> <<>>]

\* _generate_event_types_for_panel (event.py, lines 66-79)
generate_event_types_for_panel(dev_type) ==
    LET config == PANEL_CONFIGS(dev_type)
    IN IF config.button_count = 0
       THEN <<"button_1_single_click", "button_1_double_click", "button_1_long_press">>
       ELSE Flatten([button_num \in 1..config.button_count |->
                       [e \in 1..Len(config.events) |->
                           "button_" \o ToString(button_num) \o "_" \o config.events[e]]])

\* DaliCenterPanelEvent.__init__
NewPanelEvent(device) == [available |-> TRUE, dev_type |-> device.dev_type]

\* DaliCenterPanelEvent._handle_device_update (event.py, lines 165-205): the
\* entity events triggered, the bus events fired and the state writes, in order
RECURSIVE panel_event_handle_device_update(_, _)
panel_event_handle_device_update(u, property_list) ==
    IF property_list = <<>>
    THEN [triggered |-> <<>>, bus |-> <<>>, writes |-> <<>>]
    ELSE LET prop == Head(property_list)
             rest == panel_event_handle_device_update(u, Tail(property_list))
             event_type == BUTTON_EVENTS(prop.dpid)
             event_name == EventName(prop.keyNo, event_type)
             rotate == prop.dpid = Some(4)
         IN IF event_type = ""
            THEN rest
            ELSE [triggered |->
                     <<[name |-> event_name,
                        attrs |-> IF rotate THEN Some(prop.value) ELSE None]>>
                     \o rest.triggered,
                  bus |->
                     <<[event_type |-> "dali_center_event",
                        data |-> IF rotate
                                 THEN [entity_id |-> PanelEntityId(u),
                                       event_type |-> event_name,
                                       rotate_value |-> prop.value]
                                 ELSE [entity_id |-> PanelEntityId(u),
                                       event_type |-> event_name]]>>
                     \o rest.bus,
                  writes |-> <<PanelEntityId(u)>> \o rest.writes]

\* ---- light.py: DaliCenterLight ----

\* Device.color_mode is the vendor's; any of the four modes
\* _determine_features distinguishes
ColorModes == {"color_temp", "hs", "rgbw", "brightness"}

\* DaliCenterLight.__init__ and _determine_features (light.py, lines 77-102)
NewLight(device, color_mode) ==
    [available |-> TRUE, state |-> None, brightness |-> None,
     white_level |-> None, color_mode |-> color_mode,
     color_temp_kelvin |-> None, hs_color |-> None, rgbw_color |-> None]

\* dict.get on a props entry that may carry "id" instead of "dpid"
IdProp(id, value) == [id |-> id, dpid |-> None, keyNo |-> None, value |-> value]

\* prop.get("id") or prop.get("dpid") (light.py, line 208)
PropId(prop) ==
    IF "id" \in DOMAIN prop /\ prop.id # None /\ Val(prop.id) # 0
    THEN prop.id ELSE prop.dpid

\* props after the loop of lines 206-211: the ids with a value, each with the
\* value of its last occurrence
PropsKeys(property_list) ==
    {Val(PropId(property_list[i])) : i \in {j \in 1..Len(property_list) :
        PropId(property_list[j]) # None /\ property_list[j].value # None}}

PropsValue(property_list, id) ==
    LET at == {i \in 1..Len(property_list) :
                  /\ PropId(property_list[i]) = Some(id)
                  /\ property_list[i].value # None}
        last == CHOOSE i \in at : \A j \in at : j <= i
    IN Val(property_list[last].value)

Clamp(lo, hi, x) == IF x < lo THEN lo ELSE IF x > hi THEN hi ELSE x

ToBrightnessRounded(brightness_value) == (brightness_value * 255 + 500) \div 1000

\* int(brightness_value / 1000 * 255) (light.py, line 231): the float product
\* truncates to the integer quotient for every integer 0..1000
ToBrightness(brightness_value) == (brightness_value * 255) \div 1000

\* int(c * 255) for the components of colorsys.hsv_to_rgb(h/360, s/1000,
\* v/1000), for the colours the model draws: no saturation, or full
\* saturation at a multiple of 60 degrees
hsv_to_rgb255(h, s, v) ==
    LET c == ToBrightness(v)
        i == (h \div 60) % 6
    IN CASE s = 0 -> <<c, c, c>>
         [] s = 1000 /\ h % 60 = 0 ->
              CASE i = 0 -> <<c, 0, 0>>
                [] i = 1 -> <<c, c, 0>>
                [] i = 2 -> <<0, c, 0>>
                [] i = 3 -> <<0, c, c>>
                [] i = 4 -> <<0, 0, c>>
                [] i = 5 -> <<c, 0, c>>

\* DaliCenterLight._handle_device_update (light.py, lines 205-262); the value
\* of dpid 24 is the triple the three hex fields of the string denote
light_handle_device_update(light, property_list) ==
    LET keys == PropsKeys(property_list)
        props(id) == PropsValue(property_list, id)
        l20 == IF 20 \in keys THEN [light EXCEPT !.state = Some(props(20))] ELSE light
        l21 == IF 21 \in keys
               THEN [l20 EXCEPT
                       !.white_level = Some(props(21)),
                       !.rgbw_color = IF @ # None
                                      THEN Some(<<Val(@)[1], Val(@)[2], Val(@)[3],
                                                  props(21)>>)
                                      ELSE @]
               ELSE l20
        l22 == IF 22 \in keys
               THEN [l21 EXCEPT
                       !.brightness = IF props(22) = 0 /\ l21.brightness = None
                                      THEN Some(255)
                                      ELSE Some(ToBrightness(props(22)))]
               ELSE l21
        l23 == IF 23 \in keys /\ l22.color_mode = "color_temp"
               THEN [l22 EXCEPT !.color_temp_kelvin = Some(props(23))]
               ELSE l22
        l24 == IF 24 \in keys /\ l23.color_mode = "hs"
               THEN [l23 EXCEPT !.hs_color =
                        Some([h |-> props(24)[1], s_tenths |-> props(24)[2]])]
               ELSE l23
        hsv == props(24)
        v_norm == IF Clamp(0, 1000, hsv[3]) = 0 /\ l24.rgbw_color = None
                  THEN 1000 ELSE Clamp(0, 1000, hsv[3])
        rgb == hsv_to_rgb255(Clamp(0, 360, hsv[1]), Clamp(0, 1000, hsv[2]), v_norm)
        w == IF l24.white_level # None THEN Val(l24.white_level) ELSE 0
    IN IF 24 \in keys /\ l24.color_mode = "rgbw"
       THEN [l24 EXCEPT !.rgbw_color = Some(<<rgb[1], rgb[2], rgb[3], w>>)]
       ELSE l24

\* DaliCenterLight._handle_device_update_available (light.py, lines 197-203)
light_handle_device_update_available(light, available) ==
    IF available
    THEN [light EXCEPT !.available = available]
    ELSE [light EXCEPT !.available = available, !.state = Some(FALSE),
                       !.brightness = None, !.color_temp_kelvin = None]

\* ---- sensor.py: DaliCenterMotionSensor, DaliCenterIlluminanceSensor ----

\* _attr_options (sensor.py, line 143)
MotionOptions == {"no_motion", "motion", "vacant", "presence", "occupancy"}

\* DaliCenterMotionSensor.__init__ (sensor.py, lines 146-152)
NewMotionSensor(device) == [available |-> TRUE, state |-> "no_motion"]

motion_map_swapped(dpid) ==
    CASE dpid = 1 -> "no_motion"
      [] dpid = 2 -> "motion"
      [] dpid = 3 -> "vacant"
      [] dpid = 4 -> "presence"
      [] dpid = 5 -> "occupancy"
      [] OTHER -> "no_motion"

\* motion_map (sensor.py, lines 215-221) with the else branch of line 231
motion_map(dpid) ==
    CASE dpid = 1 -> "no_motion"
      [] dpid = 2 -> "motion"
      [] dpid = 3 -> "vacant"
      [] dpid = 4 -> "occupancy"
      [] dpid = 5 -> "presence"
      [] OTHER -> "no_motion"

\* DaliCenterMotionSensor._handle_device_update (sensor.py, lines 208-239):
\* the state after the loop
RECURSIVE motion_handle_device_update(_, _)
motion_handle_device_update(state, property_list) ==
    IF property_list = <<>> THEN state
    ELSE LET dpid == Head(property_list).dpid
         IN motion_handle_device_update(
                IF dpid # None THEN motion_map(Val(dpid)) ELSE state,
                Tail(property_list))

\* DaliCenterIlluminanceSensor.__init__ (sensor.py, lines 250-256)
NewIlluminanceSensor(device) == [available |-> TRUE, state |-> None]

\* float(value) of an integer value: the same number
float(value) == value

is_normal_from_zero(value) == ~(value > 1000 \/ value < 0)

\* the negation of "value > 1000 or value <= 0" (sensor.py, line 316)
is_normal(value) == ~(value > 1000 \/ value <= 0)

\* DaliCenterIlluminanceSensor._handle_device_update (sensor.py, lines
\* 308-333): the state after the loop
RECURSIVE illuminance_handle_device_update(_, _)
illuminance_handle_device_update(state, property_list) ==
    IF property_list = <<>> THEN state
    ELSE LET dpid == Head(property_list).dpid
             value == Head(property_list).value
         IN illuminance_handle_device_update(
                IF dpid = Some(4) /\ value # None
                THEN (IF ~is_normal(Val(value))
                      THEN state
                      ELSE Some(float(Val(value))))
                ELSE state,
                Tail(property_list))

\* ---- switch.py: DaliCenterIlluminanceSensorEnableSwitch ----

\* __init__ (switch.py, lines 63-71)
NewSwitch(device) == [available |-> TRUE, is_on |-> TRUE]

\* f"{device.unique_id}_sensor_enable" (switch.py, line 66)
SwitchUniqueId(u) == u \o "_sensor_enable"


\* homeassistant event trigger: the event data contains the listened data
Matches(data, want) ==
    \A k \in DOMAIN want : k \in DOMAIN data /\ data[k] = want[k]

\* the attached triggers (device_trigger.async_attach_trigger, lines 88-106)
\* whose listener a bus event of the sequence satisfies
FiredBy(bus) ==
    {t \in attached : \E i \in 1..Len(bus) :
        /\ bus[i].event_type = "dali_center_button_event"
        /\ Matches(bus[i].data, [device_id |-> t.device_id,
                                  trigger_type |-> t.trigger_type])}

\* device_trigger.get_trigger_types_for_button_count, for the buttons 1..n
get_trigger_types_for_button_count(button_count) ==
    {"button_" \o ToString(n) \o "_" \o g :
        n \in 1..button_count, g \in {"double_press", "long_press", "long_press_stop"}}

\* device.model of the device registry entry the entities' device_info made
\* for a device of the entry: its text before the device type, and the type
DeviceModel(d) ==
    [prefix |-> IF is_panel_device(d.dev_type) THEN "Panel Type "
                ELSE IF is_light_device(d.dev_type) THEN "Dali Light Type "
                ELSE IF is_motion_sensor(d.dev_type) THEN "Motion Sensor Type "
                ELSE "Illuminance Sensor Type ",
     dev_type |-> d.dev_type]

\* device_trigger.async_get_triggers (device_trigger.py, lines 58-85) for a
\* device id: the trigger types of the triggers it returns
async_get_triggers(device_id) ==
    LET known == {d \in Range(entryData.devices) : d.id = device_id}
        device == CHOOSE d \in known : TRUE
        is_panel == /\ device_id \in devReg
                    /\ known # {}
                    /\ DeviceModel(device).prefix = "Panel Type "
        dev_type == DeviceModel(device).dev_type
        button_count == IF is_panel THEN device_trigger_get_panel_button_count(dev_type)
                        ELSE 0
    IN /\ entryState = "loaded"
       /\ pc = "idle"
       /\ effects' = [NoEffects EXCEPT
             !.op = [name |-> "async_get_triggers", device_id |-> device_id,
                     button_count |-> button_count,
                     triggers |-> IF is_panel
                                  THEN get_trigger_types_for_button_count(button_count)
                                  ELSE {}]]
       /\ UNCHANGED <<entities, attached>>
       /\ UNCHANGED <<lifecycleVars, dispatchVars, optionsVars, flowVars>>

\* device_trigger.async_attach_trigger
async_attach_trigger(device_id, trigger_type) ==
    /\ [device_id |-> device_id, trigger_type |-> trigger_type] \notin attached
    /\ attached' = attached \cup {[device_id |-> device_id, trigger_type |-> trigger_type]}
    /\ UNCHANGED <<entities, effects>>
    /\ UNCHANGED <<lifecycleVars, dispatchVars, optionsVars, flowVars>>

\* er.async_entries_for_device: the entities the platforms registered for the
\* device, each with the domain of its platform
EntriesForDevice(device_id) ==
    LET of(p) == SelectSeq(Flatten(PlatformSetup(p, entryData)),
                           LAMBDA e : e.dev_id = device_id /\ e.unique_id \in entReg)
    IN Flatten([i \in 1..Len(PLATFORMS) |->
                  [j \in 1..Len(of(PLATFORMS[i])) |->
                      [domain |-> PLATFORMS[i],
                       unique_id |-> of(PLATFORMS[i])[j].unique_id,
                       entity_id |-> PLATFORMS[i] \o "." \o of(PLATFORMS[i])[j].unique_id]]])

\* str.endswith for the unique ids of the registry, each a device's unique_id
\* followed by the suffix its entity class adds
EndsWith(unique_id, suffix) ==
    \E d \in Range(entryData.devices) : unique_id = d.unique_id \o suffix

\* device_trigger._trigger_button_press (device_trigger.py, lines 158-193):
\* the service calls it makes
trigger_button_press(device_id, button_id) ==
    LET registered == EntriesForDevice(device_id)
        found == {i \in 1..Len(registered) :
                     /\ registered[i].domain = "button"
                     /\ EndsWith(registered[i].unique_id, "_btn_" \o ToString(button_id))}
        hit == CHOOSE i \in found : \A j \in found : i <= j
    IN IF device_id \notin devReg \/ found = {} THEN <<>>
       ELSE <<[method |-> "button.press", entity_id |-> registered[hit].entity_id],
              [method |-> "logbook.log", button |-> button_id,
               message |-> "Press event"]>>

\* the loop of device_trigger.fire_device_triggers (device_trigger.py, lines
\* 117-155) from a property on: the bus events fired and the service calls
\* made, in order; events is the vendor's BUTTON_EVENTS
RECURSIVE fire_device_triggers_loop(_, _, _)
fire_device_triggers_loop(events, device_id, property_list) ==
    IF property_list = <<>> THEN [bus |-> <<>>, calls |-> <<>>]
    ELSE LET prop == Head(property_list)
             event_type == IF prop.dpid # None /\ Val(prop.dpid) \in DOMAIN events
                           THEN events[Val(prop.dpid)] ELSE ""
             key_no == prop.keyNo
             rest == fire_device_triggers_loop(events, device_id, Tail(property_list))
         IN IF event_type # "" /\ key_no # None /\ Val(key_no) # 0
            THEN IF event_type = "press"
                 THEN \* line 126: return
                      [bus |-> <<>>,
                       calls |-> trigger_button_press(device_id, Val(key_no))]
                 ELSE IF event_type = "rotate" THEN rest
                 ELSE [bus |-> <<[event_type |-> "dali_center_button_event",
                                  data |-> [device_id |-> device_id,
                                            trigger_type |->
                                               EventName(key_no, event_type)]]>>
                                \o rest.bus,
                       calls |-> <<[method |-> "logbook.log", button |-> Val(key_no),
                                    message |-> event_type]>> \o rest.calls]
            ELSE rest

\* device_trigger.fire_device_triggers (device_trigger.py, lines 109-155)
fire_device_triggers(events, device_id, property_list) ==
    LET done == fire_device_triggers_loop(events, device_id, property_list)
    IN /\ entryState = "loaded"
       /\ pc = "idle"
       /\ effects' = [NoEffects EXCEPT
             !.op = [name |-> "fire_device_triggers", events |-> events,
                     device_id |-> device_id, property_list |-> property_list],
             !.bus = done.bus,
             !.calls = done.calls,
             !.fired = FiredBy(done.bus)]
       /\ UNCHANGED <<entities, attached>>
       /\ UNCHANGED <<lifecycleVars, dispatchVars, optionsVars, flowVars>>

\* ---- sensor.py: DaliCenterPanelSensor ----

\* asyncio.sleep(2) (sensor.py, line 456), in seconds
SleepSeconds == 2

\* _attr_options (sensor.py, lines 339-350)
PanelSensorOptions ==
    {"idle"} \cup
    {"button_" \o ToString(n) \o "_" \o g :
        n \in 1..8, g \in {"single_click", "double_click", "long_press"}}

\* an asyncio task running _reset_to_idle_after_delay: no task, or one that is
\* pending with its sleep's remaining seconds, cancelled, or done
NoTask == [status |-> "none", remaining |-> 0]
NewTask == [status |-> "pending", remaining |-> SleepSeconds]

\* DaliCenterPanelSensor.__init__ (sensor.py, lines 353-360). With the entity
\* go what the event loop holds for it: callbacks, the number of scheduled
\* _create_reset_task calls; tasks, per remaining second the number of
\* pending reset tasks that _reset_task no longer refers to; elapsed, the
\* seconds since the last accepted button event, up to SleepSeconds
NewPanelSensor(device) ==
    [available |-> TRUE, state |-> "idle", reset_task |-> NoTask,
     callbacks |-> 0, tasks |-> [r \in 0..SleepSeconds |-> 0],
     elapsed |-> SleepSeconds]

\* _schedule_reset_to_idle (sensor.py, lines 442-448)
schedule_reset_to_idle(sensor) ==
    [sensor EXCEPT
        !.reset_task = IF @.status = "pending" THEN [@ EXCEPT !.status = "cancelled"]
                       ELSE @,
        !.callbacks = @ + 1]

\* mutation of panel_sensor_accepts: every name is accepted
panel_sensor_accepts_any(event_name) == TRUE

\* event_name in self._attr_options (sensor.py, line 424)
panel_sensor_accepts(event_name) == event_name \in PanelSensorOptions

\* f"button_{button_number}_{BUTTON_EVENTS.get(event_type, "single_click")}"
\* (sensor.py, lines 420-422)
PanelSensorEventName(prop) ==
    EventName(prop.keyNo, IF BUTTON_EVENTS(prop.dpid) = "" THEN "single_click"
                          ELSE BUTTON_EVENTS(prop.dpid))

\* the loop of DaliCenterPanelSensor._handle_device_update (sensor.py, lines
\* 414-435), from the last property back
RECURSIVE panel_sensor_handle_device_update(_, _)
panel_sensor_handle_device_update(sensor, property_list) ==
    IF property_list = <<>> THEN sensor
    ELSE LET n == Len(property_list)
             prop == property_list[n]
             before == panel_sensor_handle_device_update(sensor,
                                                         SubSeq(property_list, 1, n - 1))
         IN IF prop.keyNo # None /\ prop.dpid # None
               /\ panel_sensor_accepts(PanelSensorEventName(prop))
            THEN schedule_reset_to_idle(
                    [before EXCEPT !.state = PanelSensorEventName(prop),
                                   !.elapsed = 0])
            ELSE before

\* ---- light.py: DaliCenterLightGroup ----

\* DaliCenterLightGroup.__init__ (light.py, lines 268-282)
NewLightGroup(group) ==
    [available |-> TRUE, state |-> FALSE, brightness |-> Some(0),
     color_mode |-> "rgbw", color_temp_kelvin |-> Some(1000),
     hs_color |-> None, rgbw_color |-> None,
     supported_color_modes |-> {"color_temp", "rgbw"}]

\* mutation of light_group_turned_on: the colour is looked at after the
\* colour temperature
light_group_turned_on_rgbw_last(group, brightness, color_temp_kelvin, rgbw_color) ==
    LET on == [group EXCEPT !.state = TRUE,
                            !.brightness = IF brightness # None THEN brightness ELSE @]
        temp == IF color_temp_kelvin # None
                THEN [on EXCEPT !.color_mode = "color_temp",
                                !.color_temp_kelvin = color_temp_kelvin]
                ELSE on
    IN IF rgbw_color # None
       THEN [temp EXCEPT !.color_mode = "rgbw", !.rgbw_color = rgbw_color]
       ELSE temp

\* the entity after the assignments of DaliCenterLightGroup.async_turn_on
\* (light.py, lines 358-366)
light_group_turned_on(group, brightness, color_temp_kelvin, rgbw_color) ==
    LET on == [group EXCEPT !.state = TRUE,
                            !.brightness = IF brightness # None THEN brightness ELSE @]
        rgbw == IF rgbw_color # None
                THEN [on EXCEPT !.color_mode = "rgbw", !.rgbw_color = rgbw_color]
                ELSE on
    IN IF color_temp_kelvin # None
       THEN [rgbw EXCEPT !.color_mode = "color_temp",
                         !.color_temp_kelvin = color_temp_kelvin]
       ELSE rgbw

\* DaliCenterEnergySensor.__init__ (sensor.py, lines 78-86)
NewEnergySensor(device) == [available |-> TRUE, state |-> 0]

\* f"{device.unique_id}_energy" (sensor.py, line 82)
EnergyUniqueId(u) == u \o "_energy"

\* mutation of Connected: the entity listens to the signals of every device
ConnectedToAny(signal, prefix, device_id) ==
    \E d \in DeviceCatalogue : signal = prefix \o d.unique_id

\* async_added_to_hass: the handler connected with
\* async_dispatcher_connect(hass, f"{prefix}{device_id}", handler) is called
\* for this signal
Connected(signal, prefix, device_id) == signal = prefix \o device_id

\* the handlers async_added_to_hass connected to the signal, called with the
\* payload: what they leave of each entity
Delivered(signal, payload) ==
    LET update(u) == Connected(signal, "dali_center_update_", u)
        avail(u) == Connected(signal, "dali_center_update_available_", u)
        on_off(u) == Connected(signal, "dali_center_sensor_on_off_", u)
        energy(u) == Connected(signal, "dali_center_energy_update_", u)
    IN [panel_events |-> [u \in DOMAIN entities.panel_events |->
            IF avail(u)
            THEN [entities.panel_events[u] EXCEPT !.available = payload.available]
            ELSE entities.panel_events[u]],
        lights |-> [u \in DOMAIN entities.lights |->
            IF update(u)
            THEN light_handle_device_update(entities.lights[u], payload.property_list)
            ELSE IF avail(u)
            THEN light_handle_device_update_available(entities.lights[u],
                                                      payload.available)
            ELSE entities.lights[u]],
        energy_sensors |-> [u \in DOMAIN entities.energy_sensors |->
            IF energy(u)
            THEN [entities.energy_sensors[u] EXCEPT !.state = payload.energy]
            ELSE IF avail(u)
            THEN [entities.energy_sensors[u] EXCEPT !.available = payload.available]
            ELSE entities.energy_sensors[u]],
        motion_sensors |-> [u \in DOMAIN entities.motion_sensors |->
            IF update(u)
            THEN [entities.motion_sensors[u] EXCEPT !.state =
                     motion_handle_device_update(@, payload.property_list)]
            ELSE IF avail(u)
            THEN [entities.motion_sensors[u] EXCEPT !.available = payload.available]
            ELSE entities.motion_sensors[u]],
        illuminance_sensors |-> [u \in DOMAIN entities.illuminance_sensors |->
            IF update(u)
            THEN [entities.illuminance_sensors[u] EXCEPT !.state =
                     illuminance_handle_device_update(@, payload.property_list)]
            ELSE IF avail(u)
            THEN [entities.illuminance_sensors[u] EXCEPT
                     !.available = payload.available]
            ELSE entities.illuminance_sensors[u]],
        switches |-> [u \in DOMAIN entities.switches |->
            IF on_off(u)
            THEN [entities.switches[u] EXCEPT !.is_on = payload.on_off]
            ELSE IF avail(u)
            THEN [entities.switches[u] EXCEPT !.available = payload.available]
            ELSE entities.switches[u]],
        \* a light group connects to no signal
        light_groups |-> entities.light_groups,
        panel_sensors |-> [u \in DOMAIN entities.panel_sensors |->
            IF update(u)
            THEN panel_sensor_handle_device_update(entities.panel_sensors[u],
                                                   payload.property_list)
            ELSE IF avail(u)
            THEN [entities.panel_sensors[u] EXCEPT !.available = payload.available]
            ELSE entities.panel_sensors[u]]]

\* the state writes the handlers of the signal schedule, one per handler call
\* (schedule_update_ha_state), in the order the platforms were set up
ScheduledWrites(signal) ==
    LET update(u) == Connected(signal, "dali_center_update_", u)
        avail(u) == Connected(signal, "dali_center_update_available_", u)
        on_off(u) == Connected(signal, "dali_center_sensor_on_off_", u)
        energy(u) == Connected(signal, "dali_center_energy_update_", u)
        one(S, id) == IF S = {} THEN <<>> ELSE <<id>>
        of(cls, P(_)) == {u \in DOMAIN entities[cls] : P(u)}
        both(u) == update(u) \/ avail(u)
        sw(u) == on_off(u) \/ avail(u)
        en(u) == energy(u) \/ avail(u)
    IN one(of("lights", both), CHOOSE u \in of("lights", both) : TRUE)
       \o one(of("energy_sensors", en),
              EnergyUniqueId(CHOOSE u \in of("energy_sensors", en) : TRUE))
       \o one(of("motion_sensors", both), CHOOSE u \in of("motion_sensors", both) : TRUE)
       \o one(of("illuminance_sensors", both),
              CHOOSE u \in of("illuminance_sensors", both) : TRUE)
       \o one(of("panel_events", avail),
              PanelEntityId(CHOOSE u \in of("panel_events", avail) : TRUE))
       \o one(of("switches", sw),
              SwitchUniqueId(CHOOSE u \in of("switches", sw) : TRUE))
       \o one(of("panel_sensors", both),
              SensorUniqueId("DaliCenterPanelSensor",
                             CHOOSE u \in of("panel_sensors", both) : TRUE))

\* ... and what they do outside the entities
DeliveredEffects(signal, payload) ==
    LET panels == {u \in DOMAIN entities.panel_events :
                      Connected(signal, "dali_center_update_", u)}
        none == [triggered |-> <<>>, bus |-> <<>>, writes |-> <<>>]
        panel == IF panels = {} THEN none
                 ELSE panel_event_handle_device_update(CHOOSE u \in panels : TRUE,
                                                       payload.property_list)
    IN [NoEffects EXCEPT
          !.op = [name |-> "async_dispatcher_send", signal |-> signal,
                  payload |-> payload],
          !.triggered = panel.triggered,
          !.bus = panel.bus,
          !.writes = panel.writes \o ScheduledWrites(signal),
          !.fired = FiredBy(panel.bus)]

\* homeassistant.helpers.dispatcher.async_dispatcher_send(hass, signal, payload)
async_dispatcher_send(signal, payload) ==
    /\ entities' = Delivered(signal, payload)
    /\ effects' = DeliveredEffects(signal, payload)

\* the entities the platform setups create for the devices of the entry; the
\* light and sensor setups create theirs only when they find their gateway
\* in hass.data
InitEntitiesOf(devices, panel_sensors) ==
    LET ids(T(_)) == {d.unique_id : d \in {x \in devices : T(x.dev_type)}}
        dev(u) == CHOOSE d \in devices : d.unique_id = u
        found(S) == IF HassDataLookup = "KeyError" THEN {} ELSE S
    IN /\ \E color_mode \in [found(ids(is_light_device)) -> ColorModes] :
            entities =
               [panel_events |-> [u \in ids(is_panel_device) |-> NewPanelEvent(dev(u))],
                lights |-> [u \in found(ids(is_light_device)) |->
                               NewLight(dev(u), color_mode[u])],
                energy_sensors |-> [u \in found(ids(is_light_device)) |->
                                       NewEnergySensor(dev(u))],
                motion_sensors |-> [u \in found(ids(is_motion_sensor)) |->
                                       NewMotionSensor(dev(u))],
                illuminance_sensors |-> [u \in found(ids(is_illuminance_sensor)) |->
                                            NewIlluminanceSensor(dev(u))],
                switches |-> [u \in ids(is_illuminance_sensor) |-> NewSwitch(dev(u))],
                light_groups |-> <<>>,
                panel_sensors |-> [u \in found({d.unique_id : d \in panel_sensors}) |->
                                      NewPanelSensor(dev(u))]]
       /\ attached = {}
       /\ effects = NoEffects

\* ... the panel sensors, which live with their reset tasks, left to
\* SpecPanelSensor
InitEntities(devices) == InitEntitiesOf(devices, {})

----------------------------------------------------------------------------
(* The callbacks async_setup_entry defines (lines 88-110) and the job queue *)

UniqueIds == {d.unique_id : d \in DeviceCatalogue}

PropertyLists == {<<>>, <<Prop(Some(20), None, Some(1))>>}
EnergyValues == {0, 15}

\* mutation of add_job: the send is scheduled twice
add_job_twice(signal, payload) ==
    jobs \o <<[signal |-> signal, payload |-> payload],
              [signal |-> signal, payload |-> payload]>>

\* hass.add_job(async_dispatcher_send, hass, signal, payload)
add_job(signal, payload) == Append(jobs, [signal |-> signal, payload |-> payload])

\* the callback attribute is set on a connected gateway, so the vendor client
\* can invoke it
Invocable(name) ==
    /\ \E g \in connected : name \in callbacks[g]
    /\ Len(jobs) < MaxJobs

on_online_status(unique_id, available) ==
    /\ Invocable("on_online_status")
    /\ jobs' = add_job("dali_center_update_available_" \o unique_id,
                       [available |-> available])
    /\ lastCall' = [name |-> "on_online_status", unique_id |-> unique_id,
                    payload |-> [available |-> available]]
    /\ UNCHANGED <<lifecycleVars, optionsVars, flowVars, entityVars>>

on_device_status(unique_id, property_list) ==
    /\ Invocable("on_device_status")
    /\ jobs' = add_job("dali_center_update_" \o unique_id,
                       [property_list |-> property_list])
    /\ lastCall' = [name |-> "on_device_status", unique_id |-> unique_id,
                    payload |-> [property_list |-> property_list]]
    /\ UNCHANGED <<lifecycleVars, optionsVars, flowVars, entityVars>>

on_energy_report(unique_id, energy) ==
    /\ Invocable("on_energy_report")
    /\ jobs' = add_job("dali_center_energy_update_" \o unique_id, [energy |-> energy])
    /\ lastCall' = [name |-> "on_energy_report", unique_id |-> unique_id,
                    payload |-> [energy |-> energy]]
    /\ UNCHANGED <<lifecycleVars, optionsVars, flowVars, entityVars>>

on_sensor_on_off(unique_id, on_off) ==
    /\ Invocable("on_sensor_on_off")
    /\ jobs' = add_job("dali_center_sensor_on_off_" \o unique_id, [on_off |-> on_off])
    /\ lastCall' = [name |-> "on_sensor_on_off", unique_id |-> unique_id,
                    payload |-> [on_off |-> on_off]]
    /\ UNCHANGED <<lifecycleVars, optionsVars, flowVars, entityVars>>

NoCall == [name |-> "none", unique_id |-> "", payload |-> [none |-> TRUE]]

\* the event loop runs the oldest job: async_dispatcher_send(hass, signal, payload)
run_job ==
    /\ jobs # <<>>
    /\ jobs' = Tail(jobs)
    /\ lastCall' = NoCall
    /\ async_dispatcher_send(Head(jobs).signal, Head(jobs).payload)
    /\ UNCHANGED attached
    /\ UNCHANGED <<lifecycleVars, optionsVars, flowVars>>

\* ---- the service calls Home Assistant makes on the entities ----

GetDropped(kwargs, key) == None

\* dict.get(key) of the service call's keyword arguments
Get(kwargs, key) == IF key \in DOMAIN kwargs THEN Some(kwargs[key]) ELSE None

\* DaliCenterLight.async_turn_on (light.py, lines 162-176)
light_async_turn_on(u, kwargs) ==
    /\ u \in DOMAIN entities.lights
    /\ effects' = [NoEffects EXCEPT
          !.op = [name |-> "light.async_turn_on", unique_id |-> u,
                  kwargs |-> kwargs],
          !.calls = <<[method |-> "turn_on", device |-> u,
                       brightness |-> Get(kwargs, "brightness"),
                       color_temp_kelvin |-> Get(kwargs, "color_temp_kelvin"),
                       hs_color |-> Get(kwargs, "hs_color"),
                       rgbw_color |-> Get(kwargs, "rgbw_color")]>>]
    /\ UNCHANGED <<entities, attached>>
    /\ UNCHANGED <<lifecycleVars, dispatchVars, optionsVars, flowVars>>

\* DaliCenterLight.async_turn_off (light.py, lines 178-180)
light_async_turn_off(u) ==
    /\ u \in DOMAIN entities.lights
    /\ effects' = [NoEffects EXCEPT
          !.op = [name |-> "light.async_turn_off", unique_id |-> u],
          !.calls = <<[method |-> "turn_off", device |-> u]>>]
    /\ UNCHANGED <<entities, attached>>
    /\ UNCHANGED <<lifecycleVars, dispatchVars, optionsVars, flowVars>>

\* DaliCenterLightGroup.async_turn_on (light.py, lines 343-370)
light_group_async_turn_on(g, kwargs) ==
    /\ g \in DOMAIN entities.light_groups
    /\ LET brightness == Get(kwargs, "brightness")
           color_temp_kelvin == Get(kwargs, "color_temp_kelvin")
           rgbw_color == Get(kwargs, "rgbw_color")
       IN /\ effects' = [NoEffects EXCEPT
                !.op = [name |-> "light_group.async_turn_on", unique_id |-> g,
                        kwargs |-> kwargs],
                !.calls = <<[method |-> "turn_on", group |-> g,
                             brightness |-> brightness,
                             color_temp_kelvin |-> color_temp_kelvin,
                             rgbw_color |-> rgbw_color]>>,
                !.writes = <<g>>]
          /\ entities' = [entities EXCEPT !.light_groups[g] =
                light_group_turned_on(@, brightness, color_temp_kelvin, rgbw_color)]
    /\ UNCHANGED attached
    /\ UNCHANGED <<lifecycleVars, dispatchVars, optionsVars, flowVars>>

\* DaliCenterLightGroup.async_turn_off (light.py, lines 372-378)
light_group_async_turn_off(g) ==
    /\ g \in DOMAIN entities.light_groups
    /\ effects' = [NoEffects EXCEPT
          !.op = [name |-> "light_group.async_turn_off", unique_id |-> g],
          !.calls = <<[method |-> "turn_off", group |-> g]>>,
          !.writes = <<g>>]
    /\ entities' = [entities EXCEPT !.light_groups[g].state = FALSE]
    /\ UNCHANGED attached
    /\ UNCHANGED <<lifecycleVars, dispatchVars, optionsVars, flowVars>>

\* ---- the event loop's part in the panel sensor's reset to idle ----

\* the loop runs a scheduled _create_reset_task (sensor.py, lines 450-452):
\* the new task replaces the reference to the task before it
create_reset_task(u) ==
    /\ u \in DOMAIN entities.panel_sensors
    /\ entities.panel_sensors[u].callbacks > 0
    /\ entities' = [entities EXCEPT !.panel_sensors[u] =
          [@ EXCEPT !.callbacks = @ - 1,
                    !.tasks = IF entities.panel_sensors[u].reset_task.status = "pending"
                              THEN [@ EXCEPT
                                      ![entities.panel_sensors[u].reset_task.remaining] =
                                          @ + 1]
                              ELSE @,
                    !.reset_task = NewTask]]
    /\ effects' = [NoEffects EXCEPT !.op = [name |-> "create_reset_task", unique_id |-> u]]
    /\ UNCHANGED attached
    /\ UNCHANGED <<lifecycleVars, dispatchVars, optionsVars, flowVars>>

\* a pending task's sleep is over: _reset_to_idle_after_delay goes on after
\* its await (sensor.py, lines 457-461); referenced tells whether the task is
\* the one _reset_task refers to
reset_to_idle_after_delay(u, referenced) ==
    /\ u \in DOMAIN entities.panel_sensors
    /\ LET sensor == entities.panel_sensors[u]
       IN /\ IF referenced
             THEN sensor.reset_task = [status |-> "pending", remaining |-> 0]
             ELSE sensor.tasks[0] > 0
          /\ entities' = [entities EXCEPT !.panel_sensors[u] =
                [@ EXCEPT !.state = "idle",
                          !.reset_task = IF referenced THEN [@ EXCEPT !.status = "done"]
                                         ELSE @,
                          !.tasks = IF referenced THEN @ ELSE [@ EXCEPT ![0] = @ - 1]]]
          /\ effects' = [NoEffects EXCEPT
                !.op = [name |-> "reset_to_idle_after_delay", unique_id |-> u,
                        referenced |-> referenced, elapsed |-> sensor.elapsed],
                !.writes = <<SensorUniqueId("DaliCenterPanelSensor", u)>>]
    /\ UNCHANGED attached
    /\ UNCHANGED <<lifecycleVars, dispatchVars, optionsVars, flowVars>>

\* a second passes: every sleep has a second less to go. A sleep that is over
\* wakes its task before the next second passes
sleep_second ==
    /\ \A u \in DOMAIN entities.panel_sensors :
          /\ entities.panel_sensors[u].reset_task # [status |-> "pending", remaining |-> 0]
          /\ entities.panel_sensors[u].tasks[0] = 0
    /\ entities' = [entities EXCEPT !.panel_sensors =
          [u \in DOMAIN @ |->
              [@[u] EXCEPT
                  !.reset_task = IF @.status = "pending"
                                 THEN [@ EXCEPT !.remaining = @ - 1] ELSE @,
                  !.tasks = [r \in 0..SleepSeconds |->
                                IF r < SleepSeconds THEN @[r + 1] ELSE 0],
                  !.elapsed = IF @ < SleepSeconds THEN @ + 1 ELSE @]]]
    /\ UNCHANGED <<attached, effects>>
    /\ UNCHANGED <<lifecycleVars, dispatchVars, optionsVars, flowVars>>

sensor_on_off_sends_always(signal, enabled, raises) ==
    <<[signal |-> signal, payload |-> [on_off |-> enabled]]>>

\* the dispatcher sends the try block of async_turn_on and async_turn_off
\* schedules with hass.add_job (switch.py, lines 121-124 and 141-144): none
\* when set_sensor_enabled raised before
sensor_on_off_sends(signal, enabled, raises) ==
    IF raises THEN <<>>
    ELSE <<[signal |-> signal, payload |-> [on_off |-> enabled]]>>

\* DaliCenterIlluminanceSensorEnableSwitch.async_turn_on and async_turn_off
\* (switch.py, lines 112-150) for enabled = True and False; raises is whether
\* the device's set_sensor_enabled raises; the except clause catches every
\* Exception, so none leaves the call
switch_async_turn(u, enabled, raises) ==
    LET signal == "dali_center_sensor_on_off_" \o u
        sends == sensor_on_off_sends(signal, enabled, raises)
    IN /\ u \in DOMAIN entities.switches
       /\ Len(jobs) < MaxJobs
       /\ effects' = [NoEffects EXCEPT
             !.op = [name |-> IF enabled THEN "switch.async_turn_on"
                              ELSE "switch.async_turn_off",
                     unique_id |-> u, raises |-> raises, raised |-> "none"],
             !.calls = <<[method |-> "set_sensor_enabled", device |-> u,
                          enabled |-> enabled]>>,
             !.sends = sends,
             !.errors = IF raises
                        THEN <<IF enabled
                               THEN "Failed to enable illuminance sensor"
                               ELSE "Failed to disable illuminance sensor">>
                        ELSE <<>>]
       /\ jobs' = IF sends = <<>> THEN jobs
                  ELSE add_job(sends[1].signal, sends[1].payload)
       /\ lastCall' = NoCall
       /\ UNCHANGED <<entities, attached>>
       /\ UNCHANGED <<lifecycleVars, optionsVars, flowVars>>

----------------------------------------------------------------------------
(* The config flow: config_flow.py, DaliCenterConfigFlow *)

FlowIds == {"f1", "f2"}

NoGateway == [gw_sn |-> "none", name |-> "none", is_tls |-> FALSE]
NoData == [sn |-> "none", gateway |-> NoGateway, keys |-> {},
           devices |-> <<>>, groups |-> <<>>, scenes |-> <<>>]

\* __init__ (lines 569-574); step is the step whose form is shown ("none"
\* before the first, "done" after async_create_entry, "abort" after
\* async_abort), reason the form's error or the abort reason, raised the
\* exception the last handler call ended with, connect how the last
\* connect() of the selected gateway ended
NewFlow == [step |-> "none", reason |-> "none", raised |-> "none", connect |-> "none",
            gateways |-> <<>>, selected_gateway |-> NoGateway,
            config_data |-> NoData, discovered_entities |-> EmptyDict,
            schema |-> NoSchema, has_schema |-> FALSE, log |-> <<>>]

Sns(list) == {list[i].gw_sn : i \in 1..Len(list)}

RECURSIVE NotConfigured(_, _)
NotConfigured(list, configured) ==
    IF list = <<>> THEN <<>>
    ELSE (IF Head(list).gw_sn \notin configured THEN <<Head(list)>> ELSE <<>>)
         \o NotConfigured(Tail(list), configured)

\* lines 604-642: discovery when no gateway is cached, then abort or the form
UserForm(f, flow, errors, discovered_gateways) ==
    LET configured_gateways == {entries[i].sn : i \in 1..Len(entries)}
        gateways == IF flow.gateways = <<>>
                    THEN NotConfigured(discovered_gateways, configured_gateways)
                    ELSE flow.gateways
        logged == IF flow.gateways = <<>>
                  THEN Append(flow.log, "discover_gateways") ELSE flow.log
    IN IF gateways = <<>>
       THEN [flow EXCEPT !.step = "abort", !.reason = "no_devices_found",
                         !.raised = "none", !.log = Append(logged, "abort")]
       ELSE [flow EXCEPT !.step = "user", !.reason = errors, !.raised = "none",
                         !.gateways = gateways, !.has_schema = TRUE,
                         !.log = IF flow.step = "user" THEN logged
                                 ELSE Append(logged, "show_user")]

\* async_step_user without user input
config_async_step_user_show(f, discovered_gateways) ==
    /\ cf[f].step = "none"
    /\ cf' = [cf EXCEPT ![f] = UserForm(f, cf[f], "none", discovered_gateways)]
    /\ UNCHANGED entries
    /\ UNCHANGED <<lifecycleVars, dispatchVars, optionsVars, entityVars>>

\* async_step_configure_entities without user input (lines 669-712), entered
\* from async_step_user after connect()
ConfigureEntitiesForm(flow, out, failed, disconnect) ==
    LET discovered == discover_entities(AllFlags, out, failed)
        schema == prepare_entity_selection_schema(discovered, FALSE, EmptyDict, FALSE)
        logged == Append(flow.log, "discover_entities")
    IN IF disconnect # "ok"
       THEN [flow EXCEPT !.step = "configure_entities", !.reason = "cannot_connect",
                         !.discovered_entities = discovered,
                         !.schema = NoSchema, !.has_schema = FALSE,
                         !.log = Append(logged, "show_error")]
       ELSE IF schema.keys = {}
       THEN [flow EXCEPT !.step = "abort", !.reason = "no_entities_found",
                         !.discovered_entities = discovered,
                         !.log = Append(logged, "abort")]
       ELSE [flow EXCEPT !.step = "configure_entities", !.reason = "none",
                         !.discovered_entities = discovered,
                         !.schema = schema, !.has_schema = TRUE,
                         !.log = Append(logged, "show_configure_entities")]

\* async_step_user with user input (lines 582-602)
config_async_step_user(f, selected_sn, connect, out, failed, disconnect) ==
    /\ cf[f].step = "user"
    /\ LET flow == cf[f]
           found == {i \in 1..Len(flow.gateways) : flow.gateways[i].gw_sn = selected_sn}
           selected_gateway == flow.gateways[CHOOSE i \in found : \A j \in found : i <= j]
           chosen == [flow EXCEPT
                        !.connect = connect,
                        !.selected_gateway = selected_gateway,
                        !.config_data = [NoData EXCEPT !.sn = selected_gateway.gw_sn,
                                                       !.gateway = selected_gateway]]
       IN cf' = [cf EXCEPT ![f] =
                    IF found = {}
                    THEN UserForm(f, flow, "device_not_found", <<>>)
                    ELSE IF connect # "ok"
                    THEN \* connect() raises out of the step; the form stays
                         [chosen EXCEPT !.raised = connect]
                    ELSE ConfigureEntitiesForm(
                            [chosen EXCEPT !.raised = "none",
                                           !.log = flow.log \o <<"select:" \o selected_sn,
                                                                 "connected">>],
                            out, failed, disconnect)]
    /\ UNCHANGED entries
    /\ UNCHANGED <<lifecycleVars, dispatchVars, optionsVars, entityVars>>

\* async_step_configure_entities with user input (lines 650-667)
config_async_step_configure_entities(f, user_input) ==
    /\ cf[f].step = "configure_entities"
    /\ LET flow == cf[f]
           selected == filter_selected_entities(user_input, flow.discovered_entities)
           config_data == Overlay(flow.config_data, selected)
       IN IF flow.selected_gateway = NoGateway
          THEN /\ cf' = [cf EXCEPT ![f] = [flow EXCEPT !.step = "abort",
                                              !.reason = "no_gateway_selected"]]
               /\ UNCHANGED entries
          ELSE /\ cf' = [cf EXCEPT ![f] =
                            [flow EXCEPT !.step = "done", !.reason = "none",
                                         !.raised = "none",
                                         !.config_data = config_data,
                                         !.log = flow.log \o <<"submit", "create_entry">>]]
               /\ entries' = Append(entries, config_data)
    /\ UNCHANGED <<lifecycleVars, dispatchVars, optionsVars, entityVars>>

----------------------------------------------------------------------------
(* Specifications *)

NoCallbacks == [g \in Instances \cup {LegacyInstance} |-> {}]

FullData == [sn |-> GwSn, gateway |-> GatewayDict, keys |-> EntityTypes,
             devices |-> CHOOSE l \in DeviceLists : Len(l) = Cardinality(DeviceCatalogue),
             groups |-> CHOOSE l \in GroupLists : Len(l) = Cardinality(GroupCatalogue),
             scenes |-> CHOOSE l \in SceneLists : Len(l) = Cardinality(SceneCatalogue)]
DevicesOnlyData == [sn |-> GwSn, gateway |-> GatewayDict, keys |-> {"devices"},
                    devices |-> CHOOSE l \in DeviceLists : Len(l) = 1,
                    groups |-> <<>>, scenes |-> <<>>]

\* entry.data as the config flow stored it
InitEntryData == {FullData, DevicesOnlyData}

InitOptions ==
    /\ ofStep = "none"
    /\ ofReason = "none"
    /\ ofRefresh = NoFlags
    /\ ofDiscovered = EmptyDict
    /\ ofSchema = NoSchema
    /\ ofInput = EmptyDict
    /\ ofResults = NoResults
    /\ ofLog = <<>>
    /\ reloadPc = "none"

InitDispatchIdle ==
    /\ jobs = <<>>
    /\ lastCall = NoCall

InitFlowIdle ==
    /\ cf = [f \in FlowIds |-> NewFlow]
    /\ entries = <<>>

\* a config entry that exists and is not set up yet; hass.data[DOMAIN] is
\* Home Assistant's shared dict, which no code of the integration writes
InitWith(data) ==
    /\ entryState = "not_loaded"
    /\ entryData \in data
    /\ runtimeData = "unset"
    /\ hassData \in {"absent", "empty", LegacyInstance}
    /\ devReg = {}
    /\ entReg = {}
    /\ pc = "idle"
    /\ caller = "ha"
    /\ ret = "none"
    /\ gen = 0
    /\ gateway = "unset"
    /\ version = "unbound"
    /\ connected = {}
    /\ callbacks = NoCallbacks
    /\ platformGw = NoPlatform
    /\ log = <<>>
    /\ inputs = NoInputs
    /\ InitOptions
    /\ InitDispatchIdle
    /\ InitFlowIdle
    /\ InitEntities({})

Init == InitWith(InitEntryData)

SetupNext ==
    \/ \E who \in {"ha", "reload"} : async_setup_entry(who)
    \/ \E outcome \in {"ok", "DaliGatewayError", "TimeoutError"} :
          async_setup_entry_connect(outcome)
    \/ \E outcome \in {"ok", "DaliGatewayError"} : async_setup_entry_get_version(outcome)
    \/ \E p \in PlatformSet : platform_async_setup_entry(p)
    \/ async_setup_entry_return

UnloadNext ==
    \/ \E who \in {"ha", "reload"} : async_unload_entry(who)
    \/ \E outcome \in {"ok", "DaliGatewayError"} : async_unload_entry_disconnect(outcome)
    \/ \E result \in BOOLEAN : async_unload_entry_return(result)

\* Under Spec the refresh flags and the gateway's answers are drawn from a few
\* cases: everything or only the devices refreshed, the gateway reporting the
\* whole catalogue or no device any more, the device discovery failing or not.
FullGateways == CHOOSE l \in GatewayLists : Len(l) = Cardinality(GatewayCatalogue)
FullOut == [devices |-> FullData.devices, groups |-> FullData.groups,
            scenes |-> FullData.scenes]
OptionOuts == {FullOut, [FullOut EXCEPT !.devices = <<>>]}
OptionFlags == {AllFlags, [NoFlags EXCEPT !["devices"] = TRUE]}
OptionFailures == {{}, {"devices"}}

OptionsNext ==
    \/ options_async_step_init_show
    \/ \E flags \in OptionFlags, out \in OptionOuts, failed \in OptionFailures :
          options_async_step_init(flags, out, failed)
    \/ \E user_input \in UserInputs(ofSchema) :
          options_async_step_select_entities(user_input)
    \/ options_async_step_refresh_result
    \/ reload_unload_not_loaded
    \/ reload_refused
    \/ reload_sleep

Next == SetupNext \/ UnloadNext \/ OptionsNext

Spec == Init /\ [][Next]_vars

\* the state async_setup_entry leaves when connect() and get_version()
\* succeeded: the gateway connected, its callbacks set, the entry loaded
InitDispatch ==
    /\ entryState = "loaded"
    /\ entryData = FullData
    /\ runtimeData = Instance(1)
    /\ hassData = "absent"
    /\ devReg = {GatewayDevice}
    /\ entReg = {}
    /\ pc = "idle"
    /\ caller = "ha"
    /\ ret = "True"
    /\ gen = 1
    /\ gateway = Instance(1)
    /\ version = "bound"
    /\ connected = {Instance(1)}
    /\ callbacks = [NoCallbacks EXCEPT ![Instance(1)] = CallbackNames]
    /\ platformGw = NoPlatform
    /\ log = <<>>
    /\ inputs = NoInputs
    /\ InitOptions
    /\ InitDispatchIdle
    /\ InitFlowIdle
    /\ InitEntities({})

DispatchNext ==
    \/ \E u \in UniqueIds, available \in BOOLEAN : on_online_status(u, available)
    \/ \E u \in UniqueIds, property_list \in PropertyLists :
          on_device_status(u, property_list)
    \/ \E u \in UniqueIds, energy \in EnergyValues : on_energy_report(u, energy)
    \/ \E u \in UniqueIds, on_off \in BOOLEAN : on_sensor_on_off(u, on_off)
    \/ run_job

SpecDispatch == InitDispatch /\ [][DispatchNext]_vars

\* Under SpecFlow the gateways answer entity discovery with the whole
\* catalogue, with every discovery failing, or with only the scenes failing.
FlowFailures == {{}, {"scenes"}, EntityTypes}

FlowNext ==
    \/ \E f \in FlowIds, discovered_gateways \in GatewayLists :
          config_async_step_user_show(f, discovered_gateways)
    \/ \E f \in FlowIds, selected_sn \in Sns(FullGateways),
          connect \in {"ok", "DaliGatewayError"},
          failed \in FlowFailures, disconnect \in {"ok", "DaliGatewayError"} :
          config_async_step_user(f, selected_sn, connect, FullOut, failed, disconnect)
    \/ \E f \in FlowIds : \E user_input \in UserInputs(cf[f].schema) :
          config_async_step_configure_entities(f, user_input)

\* no config entry exists and no flow has started
InitFlow ==
    /\ entryState = "not_loaded"
    /\ entryData = FullData
    /\ runtimeData = "unset"
    /\ hassData = "absent"
    /\ devReg = {}
    /\ entReg = {}
    /\ pc = "idle"
    /\ caller = "ha"
    /\ ret = "none"
    /\ gen = 0
    /\ gateway = "unset"
    /\ version = "unbound"
    /\ connected = {}
    /\ callbacks = NoCallbacks
    /\ platformGw = NoPlatform
    /\ log = <<>>
    /\ inputs = NoInputs
    /\ InitOptions
    /\ InitDispatchIdle
    /\ InitFlowIdle
    /\ InitEntities({})

SpecFlow == InitFlow /\ [][FlowNext]_vars

----------------------------------------------------------------------------
(* Properties of async_setup_entry and async_unload_entry, under Spec *)

Notifications(l) == {i \in 1..Len(l) : l[i] \in {Notify("Connection Failed"),
                        Notify("Connection Timeout"), Notify("Version Query Failed"),
                        Notify("Disconnection Failed")}}
Forwards(l) == {i \in 1..Len(l) : l[i] = "forward_entry_setups"}
SetupCall == inputs.call = "async_setup_entry"
UnloadCall == inputs.call = "async_unload_entry"

\* C1: when connect() and get_version() both succeed, async_setup_entry
\* establishes, in this order, the connection, the four callbacks on the
\* gateway, the gateway's device in the device registry and entry.runtime_data,
\* forwards the platform setups exactly once, each of the five platforms is
\* set up, and the call returns True.  The registry is stated at the step that
\* registers the device, the rest again at the return.
C1_SetupSuccess ==
    [][ /\ (pc = "get_version" /\ pc' = "forward" /\ inputs.connect = "ok") =>
              /\ gateway \in connected'
              /\ callbacks'[gateway] = CallbackNames
              /\ GatewayDevice \in devReg'
              /\ runtimeData' = gateway
              /\ log' = <<"connected", "callbacks_installed", "device_registered",
                          "runtime_data_set", "forward_entry_setups">>
        /\ (pc = "forward" /\ pc' = "idle" /\ inputs.connect = "ok") =>
              /\ inputs.get_version = "ok"
              /\ gateway \in connected'
              /\ callbacks'[gateway] = CallbackNames
              /\ runtimeData' = gateway
              /\ \A p \in PlatformSet : platformGw'[p] # "pending"
              /\ log' = <<"connected", "callbacks_installed", "device_registered",
                          "runtime_data_set", "forward_entry_setups", "return_true">>
              /\ ret' = "True"
      ]_vars

C1_Witness ==
    /\ SetupCall /\ pc = "idle" /\ ret = "True"
    /\ inputs.connect = "ok" /\ inputs.get_version = "ok"
    /\ gateway \in connected /\ runtimeData = gateway

\* C2: when connect() raises DaliGatewayError the call ends with
\* ConfigEntryNotReady after exactly one notification; no callback is
\* installed on the gateway, runtime_data is not set to it and no platform
\* setup is forwarded.
C2_ConnectError ==
    (SetupCall /\ inputs.connect = "DaliGatewayError") =>
        /\ pc = "idle"
        /\ ret = "ConfigEntryNotReady"
        /\ log = <<Notify("Connection Failed")>>
        /\ callbacks[gateway] = {}
        /\ runtimeData # gateway
        /\ platformGw = NoPlatform

C2_Witness == SetupCall /\ inputs.connect = "DaliGatewayError" /\ pc = "idle"

\* C3: when connect() times out the call creates exactly one notification,
\* forwards the platform setups exactly once and returns True.
C3_TimeoutContinues ==
    (SetupCall /\ inputs.connect = "TimeoutError" /\ pc = "idle") =>
        /\ Cardinality(Notifications(log)) = 1
        /\ Cardinality(Forwards(log)) = 1
        /\ ret = "True"

\* C4: async_unload_entry disconnects once, then unloads the platforms and
\* returns the platform unload's result; a DaliGatewayError of disconnect()
\* adds exactly one notification between the two.
C4_Unload ==
    UnloadCall =>
        LET note == IF inputs.disconnect = "DaliGatewayError"
                    THEN <<Notify("Disconnection Failed")>> ELSE <<>>
            done == <<"disconnect">> \o note \o <<"unload_platforms">>
        IN CASE pc = "disconnect" -> log = <<>>
             [] pc = "unload_platforms" -> log = done
             [] OTHER ->
                  /\ ret = inputs.unload_platforms
                  /\ ret \in {"True", "False"}
                  /\ log = Append(done, IF ret = "True" THEN "return_true"
                                                       ELSE "return_false")

C4_Witness ==
    /\ UnloadCall /\ pc = "idle" /\ ret = "False"
    /\ inputs.disconnect = "DaliGatewayError"

\* C6: after a successful setup every one of the five platform setups got
\* the gateway instance the setup connected and stored in entry.runtime_data.
C6_PlatformsGetGateway ==
    (SetupCall /\ pc = "idle" /\ ret = "True" /\ inputs.connect = "ok") =>
        \A p \in PlatformSet : platformGw[p] = runtimeData /\ platformGw[p] = gateway

----------------------------------------------------------------------------
(* Properties of the callbacks, under SpecDispatch *)

C5Signal(name) ==
    CASE name = "on_online_status" -> "dali_center_update_available_"
      [] name = "on_device_status" -> "dali_center_update_"
      [] name = "on_energy_report" -> "dali_center_energy_update_"
      [] name = "on_sensor_on_off" -> "dali_center_sensor_on_off_"

\* C5: a callback invoked with identifier u schedules exactly one dispatcher
\* send, on the signal of that callback for u and with the callback's payload;
\* no other step schedules a send.
C5_CallbackSignals ==
    [][ IF lastCall' = NoCall
        THEN Len(jobs') <= Len(jobs)
        ELSE jobs' = Append(jobs,
                 [signal |-> C5Signal(lastCall'.name) \o lastCall'.unique_id,
                  payload |-> lastCall'.payload])
      ]_vars

C5_Witness ==
    /\ lastCall.name = "on_energy_report"
    /\ Len(jobs) = 2
    /\ jobs[2].signal = "dali_center_energy_update_GW1_d1"
    /\ jobs[1].signal = "dali_center_update_GW1_d2"

----------------------------------------------------------------------------
(* Properties of the options flow and its reload task, under Spec *)

\* C8: the refresh step, entered from the init form, discovers on the
\* entry's own gateway and shows the selection form when the entry is loaded,
\* and aborts with gateway_not_found when, and only when, the entry has no
\* running gateway.
C8_RefreshUsesEntryGateway ==
    [][ (ofStep = "init" /\ ofStep' # "init") =>
          /\ entryState = "loaded" =>
                /\ ofStep' = "select_entities"
                /\ ofLog' = ofLog \o <<"discover:" \o runtimeData, "show_select_entities">>
          /\ runtimeData = "unset" =>
                ofStep' = "abort" /\ ofReason' = "gateway_not_found"
          /\ ofStep' = "abort" => entryState # "loaded"
      ]_vars

C9Selected(T, user_input, discovered) ==
    SelectIds(discovered[T], user_input[T])

C9Data(data, user_input, discovered) ==
    LET both == user_input.keys \cap discovered.keys
        pick(T) == IF T \in both THEN C9Selected(T, user_input, discovered) ELSE data[T]
    IN [sn |-> data.sn, gateway |-> data.gateway, keys |-> data.keys \cup both,
        devices |-> pick("devices"), groups |-> pick("groups"), scenes |-> pick("scenes")]

\* C9: submitting the options flow's selection form updates the entry's data
\* to the current data overlaid with the selection, then empties the entry's
\* devices and entities from the registries, then schedules the reload once,
\* then shows the refresh-result form; the reload's setup starts only after
\* the data update, and the options entry is created only from the
\* refresh-result form.
C9_SelectSubmit ==
    [][ /\ (ofStep = "select_entities" /\ ofStep' # "select_entities") =>
              /\ entryData' = C9Data(entryData, ofInput', ofDiscovered)
              /\ devReg' = {} /\ entReg' = {}
              /\ reloadPc = "none" /\ reloadPc' = "unload"
              /\ ofStep' = "refresh_result"
              /\ ofLog' = ofLog \o <<"update_entry", "remove_devices", "remove_entities",
                                     "create_task", "show_refresh_result">>
        /\ (reloadPc = "none" /\ reloadPc' # "none") => ofStep = "select_entities"
        /\ (pc = "idle" /\ pc' = "connect" /\ caller' = "reload") =>
              /\ "update_entry" \in Range(ofLog)
              /\ entryData = C9Data(entryData, ofInput, ofDiscovered)
        /\ (ofStep # "done" /\ ofStep' = "done") =>
              /\ ofStep = "refresh_result"
              /\ ofLog' = Append(ofLog, "create_entry")
      ]_vars

C9_Witness ==
    /\ ofStep = "done"
    /\ caller = "reload" /\ SetupCall /\ pc = "idle" /\ ret = "True"
    /\ entryData # FullData

----------------------------------------------------------------------------
(* Properties of the config flow, under SpecFlow *)

\* C7: a flow that created an entry went, in this order, through a gateway
\* discovery, the gateway form, the selection of an offered gateway with a
\* successful connection, the entity discovery and the submission of the
\* entity-selection form built from that discovery; the entry's data is sn,
\* the gateway and the selected devices, groups and scenes.
C7_EntryAfterWizard ==
    \A f \in FlowIds : cf[f].step = "done" =>
        /\ cf[f].log = <<"discover_gateways", "show_user",
                         "select:" \o cf[f].selected_gateway.gw_sn, "connected",
                         "discover_entities", "show_configure_entities",
                         "submit", "create_entry">>
        /\ cf[f].selected_gateway.gw_sn \in Sns(cf[f].gateways)
        /\ cf[f].has_schema
        /\ cf[f].config_data.sn = cf[f].selected_gateway.gw_sn
        /\ cf[f].config_data.gateway = cf[f].selected_gateway
        /\ cf[f].config_data.keys = cf[f].schema.keys
        /\ \E i \in 1..Len(entries) : entries[i] = cf[f].config_data

\* C10: a DaliGatewayError of connect() in the gateway step shows the gateway
\* form again with error cannot_connect; no exception leaves the step and no
\* entry is created by it.
C10_ConnectErrorShowsForm ==
    \A f \in FlowIds : cf[f].connect = "DaliGatewayError" =>
        /\ cf[f].raised = "none"
        /\ cf[f].step = "user"
        /\ cf[f].reason = "cannot_connect"

\* C11: a gateway discovery that leaves no unconfigured gateway keeps the
\* flow open: the gateway form is shown with error no_devices_found and the
\* flow is not aborted.
C11_NoGatewaysFormStays ==
    \A f \in FlowIds :
        ("discover_gateways" \in Range(cf[f].log) /\ cf[f].gateways = <<>>) =>
            /\ cf[f].step = "user"
            /\ cf[f].reason = "no_devices_found"

----------------------------------------------------------------------------
(* The entities of a loaded entry *)

\* entry.data listing these devices, no group and no scene
DataWith(devices) ==
    [FullData EXCEPT
        !.devices = CHOOSE l \in ListsOver(devices) : Len(l) = Cardinality(devices),
        !.groups = <<>>, !.scenes = <<>>]

\* the state a successful async_setup_entry and the platform setups leave for
\* an entry with these devices: the gateway connected, the callbacks
\* installed, the entities of the platforms that found their gateway created
LoadedEntry(data) ==
    /\ entryState = "loaded"
    /\ entryData = data
    /\ runtimeData = Instance(1)
    /\ hassData \in {"absent", LegacyInstance}
    /\ platformGw = [p \in PlatformSet |-> PlatformGateway(p)]
    /\ devReg = {GatewayDevice} \cup
                UNION {PlatformDevices(p, data) :
                          p \in {q \in PlatformSet : PlatformGateway(q) # "KeyError"}}
    /\ entReg = UNION {PlatformEntities(p, data) :
                          p \in {q \in PlatformSet : PlatformGateway(q) # "KeyError"}}
    /\ pc = "idle"
    /\ caller = "ha"
    /\ ret = "True"
    /\ gen = 1
    /\ gateway = Instance(1)
    /\ version = "bound"
    /\ connected = {Instance(1)}
    /\ callbacks = [NoCallbacks EXCEPT ![Instance(1)] = CallbackNames]
    /\ log = <<"connected", "callbacks_installed", "device_registered",
               "runtime_data_set", "forward_entry_setups", "return_true">>
    /\ inputs = [NoInputs EXCEPT !.call = "async_setup_entry", !.connect = "ok",
                                 !.get_version = "ok"]
    /\ InitOptions
    /\ InitDispatchIdle
    /\ InitFlowIdle

LoadedWith(devices) ==
    /\ LoadedEntry(DataWith(devices))
    /\ InitEntities(devices)

PanelDevice == CHOOSE d \in DeviceCatalogue : is_panel_device(d.dev_type)
PanelId == PanelDevice.unique_id

\* what the panel reports: long press of key 1, rotation, a dpid that is no
\* gesture, double click of key 2, a gesture without keyNo
LongPress1 == Prop(Some(2), Some(1), None)
Rotate1 == Prop(Some(4), Some(1), Some(30))
NoGesture == Prop(Some(9), Some(1), Some(7))
DoubleClick2 == Prop(Some(3), Some(2), None)
ClickNoKey == Prop(Some(1), None, None)
PanelPropertyLists ==
    {<<>>, <<LongPress1>>, <<Rotate1>>, <<NoGesture>>, <<DoubleClick2>>, <<ClickNoKey>>,
     <<LongPress1, DoubleClick2>>, <<NoGesture, Rotate1>>, <<Rotate1, Rotate1>>}

\* two of the trigger types async_get_triggers offers for the panel
PanelTriggerTypes ==
    {t \in get_trigger_types_for_button_count(
              device_trigger_get_panel_button_count(PanelDevice.dev_type)) :
        t \in {"button_1_long_press", "button_2_double_press"}}

InitPanel == LoadedWith({PanelDevice})

PanelNext ==
    \/ \E property_list \in PanelPropertyLists : on_device_status(PanelId, property_list)
    \/ \E available \in BOOLEAN : on_online_status(PanelId, available)
    \/ \E t \in PanelTriggerTypes : async_attach_trigger(RegistryId(PanelId), t)
    \/ run_job

SpecPanel == InitPanel /\ [][PanelNext]_vars

----------------------------------------------------------------------------
(* Properties of the panel event entity and the device triggers, under SpecPanel *)

PanelUpdate(e) ==
    /\ e.op.name = "async_dispatcher_send"
    /\ e.op.signal = "dali_center_update_" \o PanelId

\* C12: when a status update with a gesture on key k is delivered for the
\* panel, every trigger attached for the panel's device and that gesture on
\* button k fires.
C12_GestureFiresTriggers ==
    [][ PanelUpdate(effects') =>
          \A i \in 1..Len(effects'.op.payload.property_list) :
             LET prop == effects'.op.payload.property_list[i]
                 gesture == BUTTON_EVENTS(prop.dpid)
             IN (gesture # "" /\ prop.keyNo # None) =>
                   \A t \in attached :
                      (/\ t.device_id = RegistryId(PanelId)
                       /\ t.trigger_type = "button_" \o ToString(Val(prop.keyNo))
                                           \o "_" \o gesture)
                      => t \in effects'.fired
      ]_vars

C14Mapped(property_list) ==
    {i \in 1..Len(property_list) : BUTTON_EVENTS(property_list[i].dpid) # ""}

----------------------------------------------------------------------------
(* The light entity: light.py, DaliCenterLight, under SpecLight *)

LightDevice == CHOOSE d \in DeviceCatalogue : is_light_device(d.dev_type)
LightId == LightDevice.unique_id

\* what the light reports: nothing; on with brightness and white level;
\* brightness 0; a colour temperature under "id" with a status without value;
\* a colour (green, full saturation, no value); two brightness values, the
\* full one last, and a brightness without value
LightPropertyLists ==
    << <<>>,
       <<Prop(Some(20), None, Some(TRUE)), Prop(Some(22), None, Some(500)),
         Prop(Some(21), None, Some(100))>>,
       <<Prop(Some(22), None, Some(0))>>,
       <<IdProp(Some(23), Some(3000)), Prop(Some(20), None, None)>>,
       <<Prop(Some(24), None, Some(<<120, 1000, 0>>))>>,
       <<Prop(Some(22), None, Some(200)), Prop(Some(22), None, Some(1000)),
         Prop(Some(22), None, None)>> >>

\* the keyword arguments of light.turn_on service calls
LightKwargs ==
    << <<>>,
       [brightness |-> 128],
       [hs_color |-> <<120, 50>>, transition |-> 2] >>

InitLight == LoadedWith({LightDevice})

LightNext ==
    \/ \E i \in 1..Len(LightPropertyLists) :
          on_device_status(LightId, LightPropertyLists[i])
    \/ \E available \in BOOLEAN : on_online_status(LightId, available)
    \/ \E i \in 1..Len(LightKwargs) : light_async_turn_on(LightId, LightKwargs[i])
    \/ light_async_turn_off(LightId)
    \/ run_job

SpecLight == InitLight /\ [][LightNext]_vars

C13Arg(kwargs, key) == IF key \in DOMAIN kwargs THEN <<kwargs[key]>> ELSE <<>>

\* C13: async_turn_on calls the device's turn_on exactly once with
\* brightness, color_temp_kelvin, hs_color and rgbw_color from the service
\* arguments (None when absent), async_turn_off calls turn_off exactly once,
\* neither changes the entity, and the entity changes only when a device
\* status or availability signal of its device is delivered.
C13_LightCommandsForwarded ==
    [][ /\ effects'.op.name = "light.async_turn_on" =>
             /\ Len(effects'.calls) = 1
             /\ effects'.calls[1].method = "turn_on"
             /\ effects'.calls[1].device = effects'.op.unique_id
             /\ \A key \in {"brightness", "color_temp_kelvin", "hs_color", "rgbw_color"} :
                   effects'.calls[1][key] = C13Arg(effects'.op.kwargs, key)
             /\ entities' = entities
        /\ effects'.op.name = "light.async_turn_off" =>
             /\ effects'.calls = <<[method |-> "turn_off",
                                    device |-> effects'.op.unique_id]>>
             /\ entities' = entities
        /\ entities'.lights # entities.lights =>
             /\ effects'.op.name = "async_dispatcher_send"
             /\ effects'.op.signal \in {"dali_center_update_" \o LightId,
                                        "dali_center_update_available_" \o LightId}
             /\ effects'.calls = <<>>
      ]_vars

C13_Witness ==
    /\ effects.op.name = "light.async_turn_on"
    /\ effects.op.kwargs = [brightness |-> 128]
    /\ effects.calls[1].brightness = <<128>>
    /\ effects.calls[1].hs_color = <<>>
    /\ LightId \in DOMAIN entities.lights
    /\ entities.lights[LightId].state = <<TRUE>>
    /\ entities.lights[LightId].brightness = <<127>>

----------------------------------------------------------------------------
(* The illuminance sensor and its Sensor Enable switch: sensor.py,
   DaliCenterIlluminanceSensor, and switch.py, under SpecIlluminance *)

IlluminanceDevice ==
    [unique_id |-> "GW1_d4", id |-> "d4", dev_type |-> "0202", name |-> "Lux"]
IlluminanceId == IlluminanceDevice.unique_id

\* what the sensor reports: the largest accepted value; a value above it;
\* zero and a report without value; another dpid and a negative value; an
\* accepted value followed by a rejected one
IlluminancePropertyLists ==
    {<<Prop(Some(4), None, Some(1000))>>,
     <<Prop(Some(4), None, Some(1001))>>,
     <<Prop(Some(4), None, Some(0)), Prop(Some(4), None, None)>>,
     <<Prop(Some(5), None, Some(300)), Prop(Some(4), None, Some(0 - 5))>>,
     <<Prop(Some(4), None, Some(500)), Prop(Some(4), None, Some(1001))>>}

InitIlluminance == LoadedWith({IlluminanceDevice})

IlluminanceNext ==
    \/ \E property_list \in IlluminancePropertyLists :
          on_device_status(IlluminanceId, property_list)
    \/ \E available \in BOOLEAN : on_online_status(IlluminanceId, available)
    \/ \E on_off \in BOOLEAN : on_sensor_on_off(IlluminanceId, on_off)
    \/ \E enabled, raises \in BOOLEAN : switch_async_turn(IlluminanceId, enabled, raises)
    \/ run_job

SpecIlluminance == InitIlluminance /\ [][IlluminanceNext]_vars

C15Signal == "dali_center_sensor_on_off_" \o IlluminanceId

\* C15: the switch's async_turn_on / async_turn_off calls
\* set_sensor_enabled(True / False) exactly once and then schedules exactly
\* one sensor_on_off signal of the device with that value; when
\* set_sensor_enabled raises, one error is logged, no signal is scheduled and
\* nothing propagates. is_on changes only when a sensor_on_off signal of the
\* device is delivered, to the delivered value.
C15_SwitchForwards ==
    [][ /\ (effects'.op.name \in {"switch.async_turn_on", "switch.async_turn_off"}
            /\ lastCall' = NoCall) =>
             LET value == effects'.op.name = "switch.async_turn_on"
                 send == [signal |-> C15Signal, payload |-> [on_off |-> value]]
             IN /\ effects'.calls = <<[method |-> "set_sensor_enabled",
                                       device |-> IlluminanceId, enabled |-> value]>>
                /\ effects'.op.raised = "none"
                /\ IF effects'.op.raises
                   THEN /\ Len(effects'.errors) = 1
                        /\ effects'.sends = <<>>
                        /\ jobs' = jobs
                   ELSE /\ effects'.errors = <<>>
                        /\ effects'.sends = <<send>>
                        /\ jobs' = Append(jobs, send)
                /\ entities' = entities
        /\ entities'.switches[IlluminanceId].is_on
              # entities.switches[IlluminanceId].is_on =>
             /\ effects'.op.name = "async_dispatcher_send"
             /\ effects'.op.signal = C15Signal
             /\ entities'.switches[IlluminanceId].is_on = effects'.op.payload.on_off
      ]_vars

C15_Witness ==
    /\ effects.op.name = "switch.async_turn_off"
    /\ effects.op.raises
    /\ Len(effects.errors) = 1
    /\ entities.switches[IlluminanceId].is_on
    /\ jobs = <<[signal |-> C15Signal, payload |-> [on_off |-> TRUE]]>>

C17Update(e) ==
    /\ IlluminanceId \in DOMAIN entities.illuminance_sensors
    /\ e.op.name = "async_dispatcher_send"
    /\ e.op.signal = "dali_center_update_" \o IlluminanceId

\* C17: a delivered update changes the illuminance state to the value of its
\* last dpid-4 report with 0 < value <= 1000 and leaves it unchanged when
\* there is none (value out of range, no value, another dpid); the state is
\* always None or within (0, 1000].
C17_IlluminanceRange ==
    [][ /\ C17Update(effects') /\ lastCall' = NoCall =>
             LET property_list == effects'.op.payload.property_list
                 accepted == {i \in 1..Len(property_list) :
                                 /\ property_list[i].dpid = <<4>>
                                 /\ property_list[i].value # <<>>
                                 /\ property_list[i].value[1] > 0
                                 /\ property_list[i].value[1] <= 1000}
                 last == CHOOSE i \in accepted : \A j \in accepted : j <= i
             IN entities'.illuminance_sensors[IlluminanceId].state =
                   IF accepted = {}
                   THEN entities.illuminance_sensors[IlluminanceId].state
                   ELSE <<property_list[last].value[1]>>
        /\ \A u \in DOMAIN entities'.illuminance_sensors :
              LET state == entities'.illuminance_sensors[u].state
              IN state = <<>> \/ (state[1] > 0 /\ state[1] <= 1000)
      ]_vars

C17_Witness ==
    /\ C17Update(effects)
    /\ effects.op.payload.property_list =
          <<Prop(Some(5), None, Some(300)), Prop(Some(4), None, Some(0 - 5))>>
    /\ entities.illuminance_sensors[IlluminanceId].state = <<500>>

----------------------------------------------------------------------------
(* The motion sensor: sensor.py, DaliCenterMotionSensor, under SpecMotion *)

MotionDevice ==
    [unique_id |-> "GW1_d3", id |-> "d3", dev_type |-> "0201", name |-> "Motion"]
MotionId == MotionDevice.unique_id

\* a report without dpid
NoDpid == Prop(None, None, Some(1))

\* what the sensor reports
MotionPropertyLists ==
    {<<>>, <<NoDpid>>,
     <<Prop(Some(2), None, None)>>, <<Prop(Some(3), None, None)>>,
     <<Prop(Some(4), None, None)>>, <<Prop(Some(5), None, None), NoDpid>>,
     <<Prop(Some(2), None, None), Prop(Some(1), None, None)>>,
     <<Prop(Some(3), None, None), Prop(Some(9), None, None)>>}

InitMotion == LoadedWith({MotionDevice})

MotionNext ==
    \/ \E property_list \in MotionPropertyLists :
          on_device_status(MotionId, property_list)
    \/ \E available \in BOOLEAN : on_online_status(MotionId, available)
    \/ run_job

SpecMotion == InitMotion /\ [][MotionNext]_vars

C16Update(e) ==
    /\ MotionId \in DOMAIN entities.motion_sensors
    /\ e.op.name = "async_dispatcher_send"
    /\ e.op.signal = "dali_center_update_" \o MotionId

C16State(dpid) ==
    CASE dpid = 1 -> "no_motion" [] dpid = 2 -> "motion" [] dpid = 3 -> "vacant"
      [] dpid = 4 -> "occupancy" [] dpid = 5 -> "presence" [] OTHER -> "no_motion"

\* C16: a delivered update leaves the motion state given by the last property
\* with a dpid (1 no_motion, 2 motion, 3 vacant, 4 occupancy, 5 presence,
\* other no_motion), unchanged when no property has a dpid; it schedules
\* exactly one state write, and the state is one of the declared options.
C16_MotionState ==
    [][ /\ C16Update(effects') /\ lastCall' = NoCall =>
             LET property_list == effects'.op.payload.property_list
                 with == {i \in 1..Len(property_list) : property_list[i].dpid # <<>>}
                 last == CHOOSE i \in with : \A j \in with : j <= i
             IN /\ entities'.motion_sensors[MotionId].state =
                      IF with = {} THEN entities.motion_sensors[MotionId].state
                      ELSE C16State(property_list[last].dpid[1])
                /\ effects'.writes = <<MotionId>>
        /\ \A u \in DOMAIN entities'.motion_sensors :
              entities'.motion_sensors[u].state \in
                 {"no_motion", "motion", "vacant", "presence", "occupancy"}
      ]_vars

C16_Witness ==
    /\ C16Update(effects)
    /\ effects.op.payload.property_list = <<Prop(Some(5), None, None), NoDpid>>
    /\ entities.motion_sensors[MotionId].state = "presence"
    /\ effects.writes = <<MotionId>>

----------------------------------------------------------------------------
(* The platform setups on entries that list an entity more than once, and
   the device triggers offered for the registered devices, under SpecSetup *)

KnobDevice ==
    [unique_id |-> "GW1_d5", id |-> "d5", dev_type |-> "0300", name |-> "Knob"]
OtherDevice ==
    [unique_id |-> "GW1_d6", id |-> "d6", dev_type |-> "0501", name |-> "Other"]
SetupCatalogue ==
    DeviceCatalogue \cup {MotionDevice, IlluminanceDevice, KnobDevice, OtherDevice}

\* the lists of at most n elements of S, repetitions included
ListsWithRepeats(S, n) == UNION {[1..k -> S] : k \in 0..n}

Twice(S) == LET x == CHOOSE y \in S : TRUE IN <<x, x>>

\* entry.data with up to MaxListed devices, and either no group and scene or
\* one group and one scene listed twice
SetupData ==
    {[FullData EXCEPT !.devices = l, !.groups = gs[1], !.scenes = gs[2]] :
        l \in ListsWithRepeats(SetupCatalogue, MaxListed),
        gs \in {<< <<>>, <<>> >>, <<Twice(GroupCatalogue), Twice(SceneCatalogue)>>}}

InitSetup == InitWith(SetupData)

SetupTriggersNext ==
    \/ SetupNext
    \/ \E d \in SetupCatalogue : async_get_triggers(d.id)

SpecSetup == InitSetup /\ [][SetupTriggersNext]_vars

C18Setup(e, p) == e.op.name = "async_setup_entry" /\ e.op.platform = p

C18Entities(e) ==
    Flatten(e.calls)

C18Class(dev_type) ==
    IF is_light_device(dev_type) THEN "DaliCenterEnergySensor"
    ELSE IF is_motion_sensor(dev_type) THEN "DaliCenterMotionSensor"
    ELSE IF is_illuminance_sensor(dev_type) THEN "DaliCenterIlluminanceSensor"
    ELSE IF is_panel_device(dev_type) THEN "DaliCenterPanelSensor"
    ELSE "none"

\* C18: the sensor platform setup creates at most one sensor entity per
\* device id, of the class of the first matching test (light device, motion
\* sensor, illuminance sensor, panel device), none for a device matching no
\* test, and calls add_entities once when it created an entity and not at
\* all otherwise.
C18_SensorSetup ==
    C18Setup(effects, "sensor") =>
        LET new_sensors == C18Entities(effects)
            devices == Range(entryData.devices)
        IN /\ \A i, j \in 1..Len(new_sensors) :
                 new_sensors[i].dev_id = new_sensors[j].dev_id => i = j
           /\ \A i \in 1..Len(new_sensors) :
                 \E d \in devices :
                    /\ d.id = new_sensors[i].dev_id
                    /\ new_sensors[i].cls = C18Class(d.dev_type)
           /\ Len(effects.calls) = (IF new_sensors = <<>> THEN 0 ELSE 1)

C18_Witness ==
    /\ C18Setup(effects, "sensor")
    /\ entryData.devices = <<MotionDevice, LightDevice, MotionDevice>>
    /\ Len(effects.calls) = 1
    /\ Len(effects.calls[1]) = 2
    /\ effects.calls[1][1].cls = "DaliCenterMotionSensor"
    /\ effects.calls[1][2].cls = "DaliCenterEnergySensor"

\* C19: no two entities one platform setup creates have the same unique_id,
\* also when the entry lists a device, group or scene more than once; for
\* every platform.
C19_OneEntityPerUniqueId ==
    effects.op.name = "async_setup_entry" =>
        LET created == Flatten(effects.calls)
        IN \A i, j \in 1..Len(created) :
              created[i].unique_id = created[j].unique_id => i = j

C20DevTypes == {d.dev_type : d \in SetupCatalogue} \cup {"0304", "0306", "0308", ""}

C20Count(dev_type) ==
    CASE dev_type = "0302" -> 2 [] dev_type = "0304" -> 4 [] dev_type = "0306" -> 6
      [] dev_type = "0308" -> 8 [] OTHER -> 4

\* C20: both get_panel_button_count functions return 2, 4, 6, 8 for the types
\* 0302, 0304, 0306, 0308 and 4 for every other type, so the button platform
\* creates as many button entities for a panel as there are buttons with
\* device triggers offered for it.
C20_ButtonCountsAgree ==
    /\ (C18Setup(effects, "button") \/ effects.op.name = "async_get_triggers") =>
          \A dev_type \in C20DevTypes :
             /\ button_get_panel_button_count(dev_type) = C20Count(dev_type)
             /\ device_trigger_get_panel_button_count(dev_type) = C20Count(dev_type)
    /\ effects.op.name = "async_get_triggers" /\ effects.op.triggers # {} =>
          LET buttons == {e \in Range(Flatten(button_async_setup_entry(entryData))) :
                             /\ e.cls = "DaliCenterPanelButton"
                             /\ e.dev_id = effects.op.device_id}
          IN Cardinality(buttons) = effects.op.button_count

----------------------------------------------------------------------------
(* The selection helpers: helper.py, config_flow_helpers/entity_helpers.py  *)
(* and ui_helpers.py, whose functions the methods of EntityDiscoveryMixin   *)
(* and OptionsFlowHandler repeat line by line.  Under SpecHelpers the       *)
(* initial state holds the arguments of one call and each action is the     *)
(* call; effects.op records the arguments and what the call returned.       *)

SecondLamp ==
    [unique_id |-> "GW1_d7", id |-> "d7", dev_type |-> "0101", name |-> "Lamp 2"]

\* the lists find_set_differences is called on: up to two devices, with
\* repetitions, two of the devices sharing their dev_type
HelperLists == ListsWithRepeats(DeviceCatalogue \cup {SecondLamp}, 2)
HelperKeys == {"unique_id", "dev_type"}

\* dicts by entity type: any set of type keys, the devices in both orders
HelperDicts ==
    {[keys |-> K,
      devices |-> IF "devices" \in K THEN d ELSE <<>>,
      groups |-> IF "groups" \in K THEN g ELSE <<>>,
      scenes |-> IF "scenes" \in K THEN sc ELSE <<>>] :
        K \in SUBSET EntityTypes,
        d \in DeviceLists, g \in GroupLists, sc \in SceneLists}

\* an id no catalogue has
UnknownId == "GW1_d9"

\* the user_input dicts: any set of type keys, any ids
HelperInputs ==
    {[keys |-> K,
      devices |-> IF "devices" \in K THEN d ELSE {},
      groups |-> IF "groups" \in K THEN g ELSE {},
      scenes |-> IF "scenes" \in K THEN sc ELSE {}] :
        K \in SUBSET EntityTypes,
        d \in SUBSET (Ids(FullData.devices) \cup {UnknownId}),
        g \in SUBSET Ids(FullData.groups), sc \in SUBSET Ids(FullData.scenes)}

\* what the three discover calls answer when they do not raise
HelperOuts ==
    [devices : {<<>>, FullData.devices}, groups : {FullData.groups},
     scenes : {<<>>, FullData.scenes}]

Args(for, args) == [NoEffects EXCEPT !.op = [name |-> "args", for |-> for, args |-> args]]

InitHelpers ==
    /\ entryState = "not_loaded"
    /\ entryData = FullData
    /\ runtimeData = "unset"
    /\ hassData = "absent"
    /\ devReg = {}
    /\ entReg = {}
    /\ pc = "idle"
    /\ caller = "ha"
    /\ ret = "none"
    /\ gen = 0
    /\ gateway = "unset"
    /\ version = "unbound"
    /\ connected = {}
    /\ callbacks = NoCallbacks
    /\ platformGw = NoPlatform
    /\ log = <<>>
    /\ inputs = NoInputs
    /\ InitOptions
    /\ InitDispatchIdle
    /\ InitFlowIdle
    /\ entities = [panel_events |-> <<>>, lights |-> <<>>, energy_sensors |-> <<>>,
                   motion_sensors |-> <<>>,
                   illuminance_sensors |-> <<>>, switches |-> <<>>,
                   light_groups |-> <<>>, panel_sensors |-> <<>>]
    /\ attached = {}
    /\ \/ \E list1 \in HelperLists, list2 \in HelperLists, attr_name \in HelperKeys :
             effects = Args("find_set_differences",
                            [list1 |-> list1, list2 |-> list2, attr_name |-> attr_name])
       \/ \E user_input \in HelperInputs, discovered \in HelperDicts :
             effects = Args("filter_selected_entities",
                            [user_input |-> user_input, discovered |-> discovered])
       \/ \E discovered \in HelperDicts, existing \in HelperDicts,
             has_existing \in BOOLEAN, show_diff \in BOOLEAN :
             /\ ~has_existing => existing = EmptyDict
             /\ effects = Args("prepare_entity_selection_schema",
                               [discovered |-> discovered, has_existing |-> has_existing,
                                existing |-> existing, show_diff |-> show_diff])
       \/ \E refresh \in [EntityTypes -> BOOLEAN], selected \in HelperDicts,
             current_data \in HelperDicts :
             effects = Args("calculate_entity_differences",
                            [refresh |-> refresh, selected |-> selected,
                             current_data |-> current_data])
       \/ \E flags \in [EntityTypes -> BOOLEAN], out \in HelperOuts,
             failed \in SUBSET EntityTypes :
             effects = Args("discover_entities",
                            [flags |-> flags, out |-> out, failed |-> failed])

\* the call the initial state holds the arguments of
Call(name, result) ==
    /\ effects.op.name = "args"
    /\ effects.op.for = name
    /\ effects' = [NoEffects EXCEPT
          !.op = [name |-> name, args |-> effects.op.args, result |-> result]]
    /\ UNCHANGED <<entities, attached>>
    /\ UNCHANGED <<lifecycleVars, dispatchVars, optionsVars, flowVars>>

call_find_set_differences ==
    LET a == effects.op.args
    IN Call("find_set_differences",
            [forward |-> find_set_differences(a.list1, a.list2, a.attr_name),
             backward |-> find_set_differences(a.list2, a.list1, a.attr_name)])

call_filter_selected_entities ==
    LET a == effects.op.args
    IN Call("filter_selected_entities",
            filter_selected_entities(a.user_input, a.discovered))

call_prepare_entity_selection_schema ==
    LET a == effects.op.args
    IN Call("prepare_entity_selection_schema",
            prepare_entity_selection_schema(a.discovered, a.has_existing,
                                            a.existing, a.show_diff))

call_calculate_entity_differences ==
    LET a == effects.op.args
    IN Call("calculate_entity_differences",
            calculate_entity_differences(a.refresh, a.selected, a.current_data))

call_discover_entities ==
    LET a == effects.op.args
    IN Call("discover_entities",
            [discovered |-> discover_entities(a.flags, a.out, a.failed),
             calls |-> discover_entities_calls(a.flags),
             raised |-> "none"])

HelpersNext ==
    \/ call_find_set_differences
    \/ call_filter_selected_entities
    \/ call_prepare_entity_selection_schema
    \/ call_calculate_entity_differences
    \/ call_discover_entities

SpecHelpers == InitHelpers /\ [][HelpersNext]_vars

\* ---- the mixin and options flow methods beside the helper classes ----

\* the same arguments handed to _discover_entities and to
\* EntityDiscoveryHelper.discover_entities: the mixin's except Exception
\* catches whatever a call raised
both_discover_entities ==
    LET a == effects.op.args
    IN Call("both_discover_entities",
            [mixin |-> discover_entities(a.flags, a.out,
                                         {T \in EntityTypes : a.raised[T] # "none"}),
             helper |-> EntityDiscoveryHelper_discover_entities(a.flags, a.out, a.raised)])

both_prepare_entity_selection_schema ==
    LET a == effects.op.args
    IN Call("both_prepare_entity_selection_schema",
            [mixin |-> prepare_entity_selection_schema(a.discovered, a.has_existing,
                                                       a.existing, a.show_diff),
             helper |-> EntityDiscoveryHelper_prepare_entity_selection_schema(
                            GetList(a.discovered, "devices"),
                            GetList(a.discovered, "groups"),
                            GetList(a.discovered, "scenes"),
                            a.has_existing, a.existing, a.show_diff)])

both_filter_selected_entities ==
    LET a == effects.op.args
    IN Call("both_filter_selected_entities",
            [mixin |-> filter_selected_entities(a.user_input, a.discovered),
             helper |-> EntityDiscoveryHelper_filter_selected_entities(a.user_input,
                                                                        a.discovered)])

\* _calculate_entity_differences and then _format_refresh_results on the
\* handler, calculate_entity_differences and then format_refresh_results of
\* the helper on what it returned
both_refresh_results ==
    LET a == effects.op.args
        own == calculate_entity_differences(a.refresh, a.selected, a.current_data)
        returned == UIFormattingHelper_calculate_entity_differences(
                        a.selected, a.current_data, a.refresh["devices"],
                        a.refresh["groups"], a.refresh["scenes"])
    IN Call("both_refresh_results",
            [mixin |-> [results |-> own, text |-> format_refresh_results(own)],
             helper |-> [results |-> returned,
                         text |-> UIFormattingHelper_format_refresh_results(returned)]])

both_format_discovery_summary ==
    LET a == effects.op.args
    IN Call("both_format_discovery_summary",
            [mixin |-> format_discovery_summary(a.refresh, a.discovered),
             helper |-> UIFormattingHelper_format_discovery_summary(
                            a.discovered, a.refresh["devices"],
                            a.refresh["groups"], a.refresh["scenes"])])

InitBoth ==
    /\ entryState = "not_loaded"
    /\ entryData = FullData
    /\ runtimeData = "unset"
    /\ hassData = "absent"
    /\ devReg = {}
    /\ entReg = {}
    /\ pc = "idle"
    /\ caller = "ha"
    /\ ret = "none"
    /\ gen = 0
    /\ gateway = "unset"
    /\ version = "unbound"
    /\ connected = {}
    /\ callbacks = NoCallbacks
    /\ platformGw = NoPlatform
    /\ log = <<>>
    /\ inputs = NoInputs
    /\ InitOptions
    /\ InitDispatchIdle
    /\ InitFlowIdle
    /\ entities = [panel_events |-> <<>>, lights |-> <<>>, energy_sensors |-> <<>>,
                   motion_sensors |-> <<>>,
                   illuminance_sensors |-> <<>>, switches |-> <<>>,
                   light_groups |-> <<>>, panel_sensors |-> <<>>]
    /\ attached = {}
    /\ \/ \E flags \in [EntityTypes -> BOOLEAN], out \in HelperOuts,
             raised \in [EntityTypes -> RaiseKinds] :
             effects = Args("both_discover_entities",
                            [flags |-> flags, out |-> out, raised |-> raised])
       \/ \E discovered \in HelperDicts, existing \in HelperDicts,
             has_existing \in BOOLEAN, show_diff \in BOOLEAN :
             /\ ~has_existing => existing = EmptyDict
             /\ effects = Args("both_prepare_entity_selection_schema",
                               [discovered |-> discovered, has_existing |-> has_existing,
                                existing |-> existing, show_diff |-> show_diff])
       \/ \E user_input \in HelperInputs, discovered \in HelperDicts :
             effects = Args("both_filter_selected_entities",
                            [user_input |-> user_input, discovered |-> discovered])
       \/ \E refresh \in [EntityTypes -> BOOLEAN], selected \in HelperDicts,
             current_data \in HelperDicts :
             effects = Args("both_refresh_results",
                            [refresh |-> refresh, selected |-> selected,
                             current_data |-> current_data])
       \/ \E refresh \in [EntityTypes -> BOOLEAN], discovered \in HelperDicts :
             effects = Args("both_format_discovery_summary",
                            [refresh |-> refresh, discovered |-> discovered])

BothNext ==
    \/ both_discover_entities
    \/ both_prepare_entity_selection_schema
    \/ both_filter_selected_entities
    \/ both_refresh_results
    \/ both_format_discovery_summary

SpecBoth == InitBoth /\ [][BothNext]_vars

Returned(name) == effects.op.name = name

\* C25: find_set_differences(list1, list2, key) returns the elements of list1
\* whose key value no element of list2 has, in list1 order, and the elements
\* of list2 whose key value no element of list1 has, in list2 order; both
\* are empty when the lists have the same key values, and with the lists
\* swapped the two results are swapped.
C25_FindSetDifferences ==
    Returned("find_set_differences") =>
        LET a == effects.op.args
            r == effects.op.result
            absent(x, list) == \A j \in 1..Len(list) : list[j][a.attr_name] # x[a.attr_name]
            in2(x) == absent(x, a.list2)
            in1(x) == absent(x, a.list1)
        IN /\ r.forward[1] = SelectSeq(a.list1, in2)
           /\ r.forward[2] = SelectSeq(a.list2, in1)
           /\ {a.list1[i][a.attr_name] : i \in 1..Len(a.list1)}
                 = {a.list2[i][a.attr_name] : i \in 1..Len(a.list2)}
              => r.forward = << <<>>, <<>> >>
           /\ r.backward = <<r.forward[2], r.forward[1]>>

C25_Witness ==
    /\ Returned("find_set_differences")
    /\ effects.op.args.attr_name = "dev_type"
    /\ Len(effects.op.args.list1) = 2
    /\ effects.op.args.list2 = <<SecondLamp, SecondLamp>>
    /\ Len(effects.op.result.forward[1]) = 1
    /\ effects.op.result.forward[2] = <<>>

C21Count(calls, call) == Cardinality({i \in 1..Len(calls) : calls[i] = call})

\* C21: entity discovery has a key for a type exactly when the type's flag
\* is set, calls the gateway's discover method of the type once when the
\* flag is set and never otherwise, returns the empty list for a type whose
\* call raised and what the gateway returned for the other requested types,
\* and never raises.
C21_DiscoveryPerType ==
    Returned("discover_entities") =>
        LET a == effects.op.args
            r == effects.op.result
        IN /\ r.discovered.keys = {T \in EntityTypes : a.flags[T]}
           /\ \A T \in EntityTypes :
                 /\ C21Count(r.calls, "discover_" \o T) = (IF a.flags[T] THEN 1 ELSE 0)
                 /\ a.flags[T] /\ T \in a.failed => r.discovered[T] = <<>>
                 /\ a.flags[T] /\ T \notin a.failed => r.discovered[T] = a.out[T]
           /\ r.raised = "none"

C21_Witness ==
    /\ Returned("discover_entities")
    /\ effects.op.args.flags = [devices |-> TRUE, groups |-> TRUE, scenes |-> FALSE]
    /\ effects.op.args.failed = {"devices"}
    /\ effects.op.args.out.devices # <<>>
    /\ effects.op.result.discovered.devices = <<>>
    /\ effects.op.result.discovered.groups = FullData.groups
    /\ effects.op.result.calls = <<"discover_devices", "discover_groups">>

\* C22: filter_selected_entities has a key for a type exactly when the type
\* is a key of both user_input and discovered; the value is the discovered
\* entities of the type whose unique_id user_input selects, in discovery
\* order, so a selected id that was not discovered adds nothing.
C22_FilterSelected ==
    Returned("filter_selected_entities") =>
        LET a == effects.op.args
            r == effects.op.result
        IN /\ r.keys = {T \in EntityTypes : Has(a.user_input, T) /\ Has(a.discovered, T)}
           /\ \A T \in r.keys :
                 LET chosen(x) == x.unique_id \in a.user_input[T]
                 IN r[T] = SelectSeq(a.discovered[T], chosen)
           /\ \A T \in EntityTypes \ r.keys : r[T] = <<>>

C22_Witness ==
    /\ Returned("filter_selected_entities")
    /\ effects.op.args.user_input.keys = {"devices", "groups"}
    /\ effects.op.args.user_input.devices = {"GW1_d1", "GW1_d2", UnknownId}
    /\ effects.op.args.discovered.keys = {"devices", "scenes"}
    /\ Len(effects.op.args.discovered.devices) = 2
    /\ effects.op.args.discovered.devices[1].unique_id = "GW1_d2"
    /\ effects.op.result.keys = {"devices"}
    /\ effects.op.result.devices = effects.op.args.discovered.devices

\* C23: prepare_entity_selection_schema has a field for a type exactly when
\* the discovered list of the type is not empty, so the schema is empty
\* exactly when nothing was discovered; with existing_selections None every
\* field's default is all the discovered unique_ids of its type.
C23_SchemaFields ==
    Returned("prepare_entity_selection_schema") =>
        LET a == effects.op.args
            r == effects.op.result
            found(T) == IF Has(a.discovered, T) THEN a.discovered[T] ELSE <<>>
        IN /\ r.keys = {T \in EntityTypes : Len(found(T)) > 0}
           /\ r.keys = {} <=> \A T \in EntityTypes : found(T) = <<>>
           /\ ~a.has_existing =>
                 \A T \in r.keys :
                    r.defaults[T] = {found(T)[i].unique_id : i \in 1..Len(found(T))}

C23_Witness ==
    /\ Returned("prepare_entity_selection_schema")
    /\ ~effects.op.args.has_existing
    /\ effects.op.args.discovered.keys = EntityTypes
    /\ effects.op.args.discovered.groups = <<>>
    /\ effects.op.result.keys = {"devices", "scenes"}
    /\ effects.op.result.defaults["devices"] = {"GW1_d1", "GW1_d2"}

\* C24: calculate_entity_differences reports a type exactly when the type's
\* refresh flag is set and the type is a key of the selection; then added is
\* the selected entities whose unique_id no stored entity has, removed the
\* stored entities whose unique_id no selected entity has (no stored list
\* counting as the empty one) and count the number of selected entities.
\* With no flag set or an empty selection the result is empty.
C24_EntityDifferences ==
    Returned("calculate_entity_differences") =>
        LET a == effects.op.args
            r == effects.op.result
            stored(T) == IF Has(a.current_data, T) THEN a.current_data[T] ELSE <<>>
            has(list, x) == \E j \in 1..Len(list) : list[j].unique_id = x.unique_id
        IN /\ r.keys = {T \in EntityTypes : a.refresh[T] /\ Has(a.selected, T)}
           /\ \A T \in r.keys :
                 LET new(x) == ~has(stored(T), x)
                     gone(x) == ~has(a.selected[T], x)
                 IN /\ r.added[T] = SelectSeq(a.selected[T], new)
                    /\ r.removed[T] = SelectSeq(stored(T), gone)
                    /\ r.count[T] = Len(a.selected[T])
           /\ (a.selected.keys = {} \/ \A T \in EntityTypes : ~a.refresh[T]) => r = NoResults

C24_Witness ==
    /\ Returned("calculate_entity_differences")
    /\ effects.op.args.refresh = [devices |-> TRUE, groups |-> FALSE, scenes |-> TRUE]
    /\ effects.op.args.selected.keys = {"devices", "groups", "scenes"}
    /\ "scenes" \notin effects.op.args.current_data.keys
    /\ effects.op.result.keys = {"devices", "scenes"}
    /\ Len(effects.op.result.added["devices"]) = 1
    /\ Len(effects.op.result.removed["devices"]) = 1
    /\ effects.op.result.count["devices"] = 1
    /\ Len(effects.op.result.added["scenes"]) = 1
    /\ effects.op.result.removed["scenes"] = <<>>

\* C28: given existing selections, the default of every field of
\* prepare_entity_selection_schema is exactly the previously selected
\* unique_ids that the newly discovered list of the type still has, with or
\* without the diff display.
C28_DefaultsStillAvailable ==
    Returned("prepare_entity_selection_schema") /\ effects.op.args.has_existing =>
        LET a == effects.op.args
            r == effects.op.result
            ids(d, T) == IF Has(d, T) THEN {d[T][i].unique_id : i \in 1..Len(d[T])} ELSE {}
        IN \A T \in r.keys : r.defaults[T] = ids(a.existing, T) \cap ids(a.discovered, T)

----------------------------------------------------------------------------
(* Properties of the reload task _reload_with_delay, under Spec *)

C26Steps ==
    LET of_task(e) == e \in {"reload_unload", "reload_setup", "reload_done", "reload_error"}
    IN SelectSeq(ofLog, of_task)

\* C26: _reload_with_delay unloads the entry and then sets it up, each once
\* and in that order, and returns True; when the unload raises it returns
\* False without raising and without attempting the setup, and it returns
\* False when the setup returns False.
C26_ReloadReturns ==
    reloadPc = "done" =>
        LET steps == C26Steps
            ended == steps[Len(steps)]
            returned == reload_with_delay_return(ended)
        IN /\ steps \in {<<"reload_unload", "reload_setup", "reload_done">>,
                         <<"reload_unload", "reload_setup", "reload_error">>,
                         <<"reload_unload", "reload_error">>,
                         <<"reload_error">>}
           /\ returned = (IF ended = "reload_done" /\ ret = "True" THEN "True" ELSE "False")

----------------------------------------------------------------------------
(* The entities of an entry with several devices: two lights with their     *)
(* energy sensors and an illuminance sensor with its switch, under          *)
(* SpecEntities.  The gateway reports one event at a time, for a device of  *)
(* the entry or for one the entry does not have.                            *)

EntitiesDevices == {LightDevice, SecondLamp, IlluminanceDevice}
EntitiesIds == {d.unique_id : d \in EntitiesDevices} \cup {UnknownId}

\* a light switched on
EntitiesPropertyLists == {<<Prop(Some(20), None, Some(TRUE))>>}

InitEntitiesSpec == LoadedWith(EntitiesDevices)

EntitiesNext ==
    \/ /\ jobs = <<>>
       /\ \E u \in EntitiesIds, available \in BOOLEAN : on_online_status(u, available)
    \/ /\ jobs = <<>>
       /\ \E u \in EntitiesIds, property_list \in EntitiesPropertyLists :
             on_device_status(u, property_list)
    \/ /\ jobs = <<>>
       /\ \E u \in EntitiesIds : on_energy_report(u, 15)
    \/ /\ jobs = <<>>
       /\ \E u \in EntitiesIds : on_sensor_on_off(u, FALSE)
    \/ run_job

SpecEntities == InitEntitiesSpec /\ [][EntitiesNext]_vars

C27Signals(u) ==
    {"dali_center_update_" \o u, "dali_center_update_available_" \o u,
     "dali_center_energy_update_" \o u, "dali_center_sensor_on_off_" \o u}

C27Classes == {"panel_events", "lights", "energy_sensors", "motion_sensors",
               "illuminance_sensors", "switches"}

\* C27: the delivery of a status, availability, energy or sensor-on/off
\* event the gateway reported for device u leaves every entity of every
\* other device as it was, and schedules state writes only for entities of u.
C27_OtherDevicesUnchanged ==
    [][\A u \in EntitiesIds :
          (/\ jobs # <<>>
           /\ jobs' = Tail(jobs)
           /\ Head(jobs).signal \in C27Signals(u))
          => /\ \A cls \in C27Classes :
                   /\ DOMAIN entities'[cls] = DOMAIN entities[cls]
                   /\ \A v \in DOMAIN entities[cls] \ {u} :
                         entities'[cls][v] = entities[cls][v]
             /\ \A i \in 1..Len(effects'.writes) :
                   effects'.writes[i] \in {u, EnergyUniqueId(u), SwitchUniqueId(u),
                                           PanelEntityId(u)}]_vars

C27_Witness ==
    /\ effects.op.name = "async_dispatcher_send"
    /\ effects.op.signal = "dali_center_update_available_" \o LightId
    /\ SecondLamp.unique_id \in DOMAIN entities.lights
    /\ ~entities.lights[LightId].available
    /\ ~entities.energy_sensors[LightId].available
    /\ entities.lights[SecondLamp.unique_id].available
    /\ entities.energy_sensors[SecondLamp.unique_id].available
    /\ entities.lights[SecondLamp.unique_id].state = <<TRUE>>
    /\ entities.energy_sensors[SecondLamp.unique_id].state = 15
    /\ entities.switches[IlluminanceId].available
    /\ effects.writes = <<LightId, EnergyUniqueId(LightId)>>

----------------------------------------------------------------------------
(* Properties of the options flow's entity selection, under Spec *)

\* C29: once the options flow's selection form is submitted, for every type
\* whose refresh option was chosen the entry stores exactly the newly
\* discovered entities of the type the user left selected; an entity the
\* gateway no longer reports is no longer stored, also when the gateway
\* reports no entity of the type at all.
C29_RefreshedTypesReplaced ==
    [][(ofStep = "select_entities" /\ ofStep' = "refresh_result") =>
          \A T \in EntityTypes :
             ofRefresh[T] =>
                LET found == IF Has(ofDiscovered, T) THEN ofDiscovered[T] ELSE <<>>
                    left(x) == Has(ofInput', T) /\ x.unique_id \in ofInput'[T]
                IN /\ Has(entryData', T)
                   /\ entryData'[T] = SelectSeq(found, left)
      ]_vars

----------------------------------------------------------------------------
(* Properties of interleaved config flows, under SpecFlow *)

\* C30: however the config flows interleave, no two config entries have the
\* same gateway serial number: the form a flow shows offers no gateway whose
\* sn a config entry stores, and two flows that discovered the same
\* unconfigured gateway do not both create an entry for it.
C30_OneEntryPerGateway ==
    [][/\ \A f \in FlowIds :
             (cf[f].step = "none" /\ cf'[f].step = "user") =>
                 Sns(cf'[f].gateways) \cap {entries[i].sn : i \in 1..Len(entries)} = {}
       /\ \A i, j \in 1..Len(entries') : entries'[i].sn = entries'[j].sn => i = j
      ]_vars

\* ---------------------------------------------------------------------------
\* C31: when gateway.get_version() raises DaliGatewayError during
\* async_setup_entry, the error is handled: the call creates exactly one
\* notification for it and still completes, with the gateway's device
\* registered, runtime_data set to the gateway, the platform setups forwarded
\* once and True returned, and not with some other exception.
C31_VersionErrorHandled ==
    (SetupCall /\ inputs.connect = "ok" /\ inputs.get_version = "DaliGatewayError"
       /\ pc = "idle") =>
        /\ Cardinality({i \in 1..Len(log) : log[i] = Notify("Version Query Failed")}) = 1
        /\ GatewayDevice \in devReg
        /\ runtimeData = gateway
        /\ Cardinality(Forwards(log)) = 1
        /\ ret = "True"

----------------------------------------------------------------------------
(* The light's brightness, state and colour temperature, under SpecLight *)

\* the reports of a property list for one property id that carry a value
C36Reports(property_list, id) ==
    SelectSeq(property_list,
              LAMBDA p : /\ p.value # None
                         /\ \/ "id" \in DOMAIN p /\ p.id = Some(id)
                            \/ "id" \notin DOMAIN p /\ p.dpid = Some(id))

C36Last(reports) == Val(reports[Len(reports)].value)

C36Update(e) ==
    /\ LightId \in DOMAIN entities.lights
    /\ e.op.name = "async_dispatcher_send"
    /\ e.op.signal = "dali_center_update_" \o LightId

\* C36: a delivered status update whose brightness property (dpid 22) has
\* the value v sets the light's brightness to the integer part of
\* v / 1000 * 255 for the last such v, except that v = 0 received while
\* brightness is None sets 255; brightness is always None or within 0..255.
\* Properties without a value change nothing, dpid 20 sets is_on, and a
\* colour temperature (dpid 23) is applied only when the light's colour mode
\* is color_temp.
C36_LightBrightness ==
    [][ /\ (C36Update(effects') /\ lastCall' = NoCall /\ jobs' # jobs) =>
             LET old == entities.lights[LightId]
                 new == entities'.lights[LightId]
                 list == effects'.op.payload.property_list
                 r20 == C36Reports(list, 20)
                 r22 == C36Reports(list, 22)
                 r23 == C36Reports(list, 23)
             IN /\ IF r22 = <<>> THEN new.brightness = old.brightness
                   ELSE IF C36Last(r22) = 0 /\ old.brightness = None
                   THEN new.brightness = Some(255)
                   ELSE /\ new.brightness # None
                        /\ Val(new.brightness) * 1000 <= C36Last(r22) * 255
                        /\ C36Last(r22) * 255 < (Val(new.brightness) + 1) * 1000
                /\ new.state = IF r20 = <<>> THEN old.state ELSE Some(C36Last(r20))
                /\ new.color_temp_kelvin =
                      IF r23 # <<>> /\ old.color_mode = "color_temp"
                      THEN Some(C36Last(r23)) ELSE old.color_temp_kelvin
                /\ (\A i \in 1..Len(list) : list[i].value = None) => new = old
        /\ \A u \in DOMAIN entities'.lights :
              \/ entities'.lights[u].brightness = None
              \/ Val(entities'.lights[u].brightness) \in 0..255
      ]_vars

\* the full brightness reported last, after a smaller one and before a
\* report without value, on a light that had the brightness 127
C36_Witness ==
    /\ C36Update(effects)
    /\ Len(C36Reports(effects.op.payload.property_list, 22)) = 2
    /\ Len(effects.op.payload.property_list) = 3
    /\ entities.lights[LightId].brightness = Some(255)
    /\ entities.lights[LightId].state = Some(TRUE)
    /\ entities.lights[LightId].color_mode = "color_temp"
    /\ entities.lights[LightId].color_temp_kelvin = Some(3000)

----------------------------------------------------------------------------
(* The event types the panel event entity declares, under SpecPanel *)

C34Declared(u) ==
    Range(generate_event_types_for_panel(entities.panel_events[u].dev_type))

\* C34: every event the panel event entity triggers for a delivered status
\* update has a type among the event_types the entity declared for its panel
\* type.
C34_TriggeredAreDeclared ==
    PanelUpdate(effects) =>
        \A i \in 1..Len(effects.triggered) :
            effects.triggered[i].name \in C34Declared(PanelId)

----------------------------------------------------------------------------
(* The light group entity: light.py, DaliCenterLightGroup, under
   SpecLightGroup *)

SecondGroup == [unique_id |-> "GW1_g2", id |-> "g2", dev_type |-> "group", name |-> "Stairs"]
LightGroups == GroupCatalogue \cup {SecondGroup}
LightGroupIds == {DevId(g) : g \in LightGroups}

GroupData ==
    [FullData EXCEPT
        !.devices = <<>>,
        !.groups = CHOOSE l \in ListsOver(LightGroups) : Len(l) = Cardinality(LightGroups),
        !.scenes = <<>>]

\* the keyword arguments of light.turn_on service calls on a group
Red == <<255, 0, 0, 0>>
GroupKwargs ==
    << <<>>,
       [brightness |-> 128],
       [color_temp_kelvin |-> 3000],
       [rgbw_color |-> Red],
       [color_temp_kelvin |-> 3000, rgbw_color |-> Red],
       [brightness |-> 128, hs_color |-> <<120, 50>>] >>

\* the groups the light platform creates (light.py, lines 59-69) when it
\* finds its gateway
InitLightGroup ==
    /\ LoadedEntry(GroupData)
    /\ entities = [panel_events |-> <<>>, lights |-> <<>>, energy_sensors |-> <<>>,
                   motion_sensors |-> <<>>, illuminance_sensors |-> <<>>,
                   switches |-> <<>>, panel_sensors |-> <<>>,
                   light_groups |->
                      [g \in IF HassDataLookup = "KeyError" THEN {} ELSE LightGroupIds |->
                          NewLightGroup(CHOOSE x \in LightGroups : DevId(x) = g)]]
    /\ attached = {}
    /\ effects = NoEffects

LightGroupNext ==
    \/ \E g \in LightGroupIds, i \in 1..Len(GroupKwargs) :
          light_group_async_turn_on(g, GroupKwargs[i])
    \/ \E g \in LightGroupIds : light_group_async_turn_off(g)

SpecLightGroup == InitLightGroup /\ [][LightGroupNext]_vars

C35Given(kwargs, key, old) == IF key \in DOMAIN kwargs THEN <<kwargs[key]>> ELSE old

\* C35: async_turn_on of a light group forwards exactly one turn_on to the
\* vendor group, sets is_on to True, updates brightness, rgbw_color and
\* color_temp_kelvin only for the arguments supplied, and makes color_mode
\* COLOR_TEMP if a colour temperature was supplied, otherwise RGBW if an RGBW
\* colour was supplied, otherwise leaves it; async_turn_off forwards exactly
\* one turn_off, sets is_on to False and leaves brightness and colour
\* unchanged. color_mode is always one of supported_color_modes.
C35_LightGroupCommands ==
    [][ /\ effects'.op.name = "light_group.async_turn_on" =>
             LET g == effects'.op.unique_id
                 kwargs == effects'.op.kwargs
                 old == entities.light_groups[g]
                 new == entities'.light_groups[g]
             IN /\ Len(effects'.calls) = 1
                /\ effects'.calls[1].method = "turn_on"
                /\ effects'.calls[1].group = g
                /\ new.state = TRUE
                /\ new.brightness = C35Given(kwargs, "brightness", old.brightness)
                /\ new.rgbw_color = C35Given(kwargs, "rgbw_color", old.rgbw_color)
                /\ new.color_temp_kelvin =
                      C35Given(kwargs, "color_temp_kelvin", old.color_temp_kelvin)
                /\ new.color_mode =
                      IF "color_temp_kelvin" \in DOMAIN kwargs THEN "color_temp"
                      ELSE IF "rgbw_color" \in DOMAIN kwargs THEN "rgbw"
                      ELSE old.color_mode
                /\ new.hs_color = old.hs_color /\ new.available = old.available
                /\ \A h \in DOMAIN entities.light_groups \ {g} :
                      entities'.light_groups[h] = entities.light_groups[h]
        /\ effects'.op.name = "light_group.async_turn_off" =>
             LET g == effects'.op.unique_id
             IN /\ effects'.calls = <<[method |-> "turn_off", group |-> g]>>
                /\ entities'.light_groups =
                      [entities.light_groups EXCEPT ![g].state = FALSE]
        /\ \A g \in DOMAIN entities'.light_groups :
              entities'.light_groups[g].color_mode
                 \in entities'.light_groups[g].supported_color_modes
      ]_vars

\* a turn_on with both a colour temperature and an RGBW colour on a group
\* that was in the mode RGBW with the brightness 128
C35_Witness ==
    /\ effects.op.name = "light_group.async_turn_on"
    /\ effects.op.kwargs = [color_temp_kelvin |-> 3000, rgbw_color |-> Red]
    /\ entities.light_groups[effects.op.unique_id].color_mode = "color_temp"
    /\ entities.light_groups[effects.op.unique_id].rgbw_color = Some(Red)
    /\ entities.light_groups[effects.op.unique_id].brightness = Some(128)
    /\ entities.light_groups[effects.op.unique_id].state

----------------------------------------------------------------------------
(* device_trigger.fire_device_triggers, under SpecTriggers *)

\* the vendor's BUTTON_EVENTS, by dpid: with the gesture names event.py
\* declares, and with the names device_trigger.py tests and offers ("press",
\* "double_press")
ClickEvents == [dpid \in 1..5 |-> BUTTON_EVENTS(Some(dpid))]
PressEvents == <<"press", "long_press", "double_press", "rotate", "long_press_stop">>
ButtonEventTables == {ClickEvents, PressEvents}

Click1 == Prop(Some(1), Some(1), None)
TriggerProps == {Click1, LongPress1, DoubleClick2, Rotate1, ClickNoKey, NoGesture}
TriggerPropertyLists ==
    {<<>>} \cup {<<p>> : p \in TriggerProps} \cup {<<p, q>> : p, q \in TriggerProps}

\* the panel's device registry id and one the registry does not have
TriggerDeviceIds == {DevId(PanelDevice), "d9"}

InitTriggers == LoadedWith({PanelDevice})

TriggersNext ==
    \E events \in ButtonEventTables, device_id \in TriggerDeviceIds,
       property_list \in TriggerPropertyLists :
          fire_device_triggers(events, device_id, property_list)

SpecTriggers == InitTriggers /\ [][TriggersNext]_vars

C37Gesture(e, prop) ==
    IF prop.dpid # None /\ prop.dpid[1] \in DOMAIN e.op.events /\ prop.keyNo # None
    THEN e.op.events[prop.dpid[1]] ELSE ""

\* C37: fire_device_triggers handles every property of its list: each
\* property with a keyNo whose dpid maps to a gesture other than press and
\* rotate produces exactly one dali_center_button_event with the device id
\* and the trigger type button_{keyNo}_{gesture}, whatever precedes it in the
\* list; each press property presses the matching button entity of a
\* registered device; a rotate produces nothing.
C37_EveryPropertyHandled ==
    effects.op.name = "fire_device_triggers" =>
        LET list == effects.op.property_list
            gestures == {i \in 1..Len(list) :
                            C37Gesture(effects, list[i]) \notin {"", "press", "rotate"}}
            presses == {i \in 1..Len(list) :
                           /\ C37Gesture(effects, list[i]) = "press"
                           /\ effects.op.device_id \in devReg
                           /\ ("button." \o PanelId \o "_btn_" \o ToString(list[i].keyNo[1]))
                                 \in {"button." \o u : u \in entReg}}
            nth(S, j) == CHOOSE i \in S : Cardinality({k \in S : k <= i}) = j
            pressed == SelectSeq(effects.calls, LAMBDA c : c.method = "button.press")
        IN /\ Len(effects.bus) = Cardinality(gestures)
           /\ \A j \in 1..Cardinality(gestures) :
                 effects.bus[j] =
                    [event_type |-> "dali_center_button_event",
                     data |-> [device_id |-> effects.op.device_id,
                               trigger_type |->
                                  "button_" \o ToString(list[nth(gestures, j)].keyNo[1])
                                  \o "_" \o C37Gesture(effects, list[nth(gestures, j)])]]
           /\ Len(pressed) = Cardinality(presses)
           /\ \A j \in 1..Cardinality(presses) :
                 pressed[j].entity_id =
                    "button." \o PanelId \o "_btn_"
                    \o ToString(list[nth(presses, j)].keyNo[1])

----------------------------------------------------------------------------
(* The panel sensor and its reset to idle: sensor.py, DaliCenterPanelSensor,
   under SpecPanelSensor and SpecPanelSensorFair *)

\* what the panel reports to the sensor: a click; a click and a double click
\* in one report; a rotation; a dpid BUTTON_EVENTS does not know; a click of
\* a key the options do not have and a click without keyNo
Click9 == Prop(Some(1), Some(9), None)
PanelSensorPropertyLists ==
    {<<Click1>>, <<Click1, DoubleClick2>>, <<Rotate1>>, <<NoGesture>>,
     <<Click9, ClickNoKey>>}

\* the reset tasks that are pending and the creations that are scheduled
PanelSensorPending(u) ==
    IF u \notin DOMAIN entities.panel_sensors THEN 0
    ELSE LET sensor == entities.panel_sensors[u]
             RECURSIVE Sum(_)
             Sum(r) == IF r > SleepSeconds THEN 0 ELSE sensor.tasks[r] + Sum(r + 1)
         IN sensor.callbacks + Sum(0)
            + (IF sensor.reset_task.status = "pending" THEN 1 ELSE 0)

InitPanelSensor ==
    /\ LoadedEntry(DataWith({PanelDevice}))
    /\ InitEntitiesOf({PanelDevice}, {PanelDevice})

PanelSensorNext ==
    \/ /\ jobs = <<>>
       /\ PanelSensorPending(PanelId) <= MaxPending
       /\ \E property_list \in PanelSensorPropertyLists :
             on_device_status(PanelId, property_list)
    \/ run_job
    \/ create_reset_task(PanelId)
    \/ \E referenced \in BOOLEAN : reset_to_idle_after_delay(PanelId, referenced)
    \/ sleep_second

SpecPanelSensor == InitPanelSensor /\ [][PanelSensorNext]_vars

\* the event loop runs every job, scheduled callback and woken task, and time
\* passes
SpecPanelSensorFair ==
    /\ SpecPanelSensor
    /\ WF_vars(run_job)
    /\ WF_vars(create_reset_task(PanelId))
    /\ WF_vars(\E referenced \in BOOLEAN : reset_to_idle_after_delay(PanelId, referenced))
    /\ WF_vars(sleep_second)

C32PendingTasks(e) ==
    LET sensor == e.panel_sensors[PanelId]
    IN Cardinality({r \in 0..SleepSeconds : sensor.tasks[r] > 0})
       + (IF sensor.reset_task.status = "pending" THEN 1 ELSE 0)

\* C32: at most one reset-to-idle task of the panel sensor is pending at any
\* time, and a task sets the state to idle no earlier than 2 seconds after
\* the most recent accepted button event.
C32_OneResetTask ==
    [][ /\ PanelId \in DOMAIN entities'.panel_sensors =>
             /\ C32PendingTasks(entities') <= 1
             /\ \A r \in 0..SleepSeconds :
                   entities'.panel_sensors[PanelId].tasks[r] <= 1
        /\ (/\ PanelId \in DOMAIN entities'.panel_sensors
            /\ effects'.op.name = "reset_to_idle_after_delay"
            /\ entities' # entities) =>
             effects'.op.elapsed >= SleepSeconds
      ]_vars

C33Gesture(prop) ==
    IF BUTTON_EVENTS(prop.dpid) = "" THEN "single_click" ELSE BUTTON_EVENTS(prop.dpid)

\* a button event whose name is one of the sensor's options
C33Accepted(prop) ==
    /\ prop.keyNo # None /\ prop.dpid # None
    /\ prop.keyNo[1] \in 1..8
    /\ C33Gesture(prop) \in {"single_click", "double_click", "long_press"}

\* a status report of the panel with such an event is waiting for delivery
C33Arriving ==
    \E i \in 1..Len(jobs) :
        /\ jobs[i].signal = "dali_center_update_" \o PanelId
        /\ \E k \in 1..Len(jobs[i].payload.property_list) :
              C33Accepted(jobs[i].payload.property_list[k])

\* the sensor's state; idle as long as there is no sensor
C33State ==
    IF PanelId \in DOMAIN entities.panel_sensors
    THEN entities.panel_sensors[PanelId].state ELSE "idle"

\* C33: once the panel sensor has accepted a button event, its state becomes
\* idle again unless a further button event arrives; the state is always one
\* of the declared options, a delivered report setting it to the name of its
\* last event with a declared name and leaving it unchanged when it has none.
C33_BackToIdle ==
    /\ (C33State # "idle" /\ ~C33Arriving) ~> (C33State = "idle" \/ C33Arriving)
    /\ [](\/ C33State = "idle"
          \/ \E n \in 1..8, g \in {"single_click", "double_click", "long_press"} :
                C33State = "button_" \o ToString(n) \o "_" \o g)
    /\ [][ (/\ PanelId \in DOMAIN entities.panel_sensors
            /\ lastCall' = NoCall /\ jobs' # jobs
            /\ effects'.op.name = "async_dispatcher_send"
            /\ effects'.op.signal = "dali_center_update_" \o PanelId) =>
             LET list == effects'.op.payload.property_list
                 accepted == SelectSeq(list, C33Accepted)
                 last == accepted[Len(accepted)]
             IN entities'.panel_sensors[PanelId].state =
                   IF accepted = <<>> THEN entities.panel_sensors[PanelId].state
                   ELSE "button_" \o ToString(last.keyNo[1]) \o "_" \o C33Gesture(last)
       ]_vars

\* the referenced task has set the state back to idle two seconds after the
\* double click of a report with two events
C33_Witness ==
    /\ PanelId \in DOMAIN entities.panel_sensors
    /\ effects.op.name = "reset_to_idle_after_delay"
    /\ effects.op.referenced
    /\ effects.op.elapsed = SleepSeconds
    /\ C33State = "idle"
    /\ entities.panel_sensors[PanelId].reset_task.status = "done"
    /\ PanelSensorPending(PanelId) = 0


\* C38: on the same arguments, _discover_entities,
\* _prepare_entity_selection_schema and _filter_selected_entities of the mixin
\* return what the EntityDiscoveryHelper functions of the same names return,
\* and _calculate_entity_differences, _format_refresh_results and
\* _format_discovery_summary of the options flow produce what the
\* UIFormattingHelper functions return.
C38Compared ==
    effects.op.name \in {"both_discover_entities", "both_prepare_entity_selection_schema",
                         "both_filter_selected_entities", "both_refresh_results",
                         "both_format_discovery_summary"}

C38_MixinEqualsHelper ==
    C38Compared => effects.op.result.mixin = effects.op.result.helper

\* discover_devices raised an Exception that is no DaliGatewayError while
\* the other two calls answered, and both sides returned
C38_Witness ==
    /\ effects.op.name = "both_discover_entities"
    /\ effects.op.args.flags = AllFlags
    /\ effects.op.args.raised["devices"] = "Exception"
    /\ effects.op.args.out["devices"] # <<>>
    /\ effects.op.args.raised["groups"] = "none"
    /\ effects.op.result.mixin.keys = EntityTypes
    /\ effects.op.result.mixin.groups # <<>>
    /\ effects.op.result.helper.devices = <<>>

====
